---------------------------- MODULE Spec2Model ----------------------------
(***************************************************************************)
(* A model of src/main.c: a single-shot Vulkan program that renders the    *)
(* depth of one triangle into an off-screen image, copies the image into a *)
(* host-visible buffer, reads it back and tears everything down.           *)
(*                                                                         *)
(* The host program is one sequential function (main); pc names the call   *)
(* it is about to make.  The device is a second process: once a command    *)
(* buffer is submitted it executes the recorded commands one at a time and *)
(* then signals the fence.  Every Vulkan call that returns a VkResult may  *)
(* fail; what the program does with the result is taken from the source.   *)
(***************************************************************************)
EXTENDS Naturals, Sequences, FiniteSets

(***************************************************************************)
(* Program constants.                                                      *)
(***************************************************************************)
MAX_PHYSICAL_DEVICE_COUNT == 4
MAX_PHYSICAL_DEVICE_QUEUE_FAMILIES == 8

(***************************************************************************)
(* Bounds of the model.                                                    *)
(***************************************************************************)
\* devices per platform and queue families per device in SpecDeviceContext
MaxDevices == 2
MaxQueueFamilies == 2
\* memory types per device in SpecMemory
MaxMemoryTypes == 2
\* fence waits that may return without success
MaxWaits == 3
\* 32-bit words in the compiled vertex shader
MaxShaderWords == 2

Min(a, b) == IF a < b THEN a ELSE b

RECURSIVE Pow2(_)
Pow2(n) == IF n = 0 THEN 1 ELSE 2 * Pow2(n - 1)

SeqsUpTo(S, n) == UNION {[1..k -> S] : k \in 0..n}

(***************************************************************************)
(* VkResult values the calls of the program can return.                    *)
(***************************************************************************)
VK_SUCCESS == "VK_SUCCESS"
VK_TIMEOUT == "VK_TIMEOUT"
VK_INCOMPLETE == "VK_INCOMPLETE"
VkErrors == {"VK_ERROR_OUT_OF_HOST_MEMORY", "VK_ERROR_DEVICE_LOST"}
VkCallResults == {VK_SUCCESS, "VK_ERROR_OUT_OF_HOST_MEMORY"}

(***************************************************************************)
(* The platform: what the driver reports when queried.                     *)
(***************************************************************************)
QueueFlagSets == {{"GRAPHICS"}, {"TRANSFER"}, {"GRAPHICS", "TRANSFER"}}

Device(type, families) == [deviceType |-> type, queueFamilies |-> families]

\* The laptop of the source's comment: an integrated GPU and a CPU (llvmpipe).
IntegratedGpu == Device("INTEGRATED_GPU", <<{"GRAPHICS", "TRANSFER"}>>)
Llvmpipe == Device("CPU", <<{"GRAPHICS", "TRANSFER"}>>)
DiscreteGpu == Device("DISCRETE_GPU", <<{"TRANSFER"}, {"GRAPHICS", "TRANSFER"}>>)
GraphicsOnlyGpu == Device("DISCRETE_GPU", <<{"GRAPHICS"}>>)

DeviceCatalog ==
    { <<>>,
      <<Llvmpipe>>,
      <<IntegratedGpu, Llvmpipe>>,
      <<Llvmpipe, DiscreteGpu>>,
      <<GraphicsOnlyGpu, IntegratedGpu>>,
      <<Llvmpipe, Llvmpipe, Llvmpipe, Llvmpipe, IntegratedGpu>> }

Memory(types, imageBits, bufferBits) ==
    [memoryTypes |-> types, imageTypeBits |-> imageBits, bufferTypeBits |-> bufferBits]

MemoryCatalog ==
    { \* a discrete card: device-local memory and a host-visible heap
      Memory(<<{"DEVICE_LOCAL"}, {"HOST_VISIBLE", "HOST_COHERENT"}>>, 1, 3),
      \* unified memory
      Memory(<<{"HOST_VISIBLE"}, {"DEVICE_LOCAL", "HOST_VISIBLE", "HOST_COHERENT"}>>, 3, 3),
      \* no device-local type the image is compatible with
      Memory(<<{"DEVICE_LOCAL"}, {"HOST_VISIBLE", "HOST_COHERENT"}>>, 2, 3),
      \* no coherent host-visible type
      Memory(<<{"DEVICE_LOCAL"}, {"HOST_VISIBLE"}>>, 3, 3) }

\* what the driver reports as VkMemoryRequirements.size: a size for the image, and
\* for a buffer its size rounded up to a multiple of bufferGranularity
Requirements(imageSize, bufferGranularity) ==
    [imageSize |-> imageSize, bufferGranularity |-> bufferGranularity]

RequirementsCatalog == {Requirements(2048, 64), Requirements(4096, 256)}

Platform(devs, mem, req) == [devices |-> devs, memory |-> mem, requirements |-> req]

Platforms ==
    {Platform(d, m, r) : d \in DeviceCatalog, m \in MemoryCatalog, r \in RequirementsCatalog}

\* VkFormat values: the depth formats formatSize knows and some it does not
DepthFormats ==
    { "VK_FORMAT_D16_UNORM", "VK_FORMAT_D16_UNORM_S8_UINT", "VK_FORMAT_D24_UNORM_S8_UINT",
      "VK_FORMAT_D32_SFLOAT", "VK_FORMAT_D32_SFLOAT_S8_UINT" }

Formats ==
    DepthFormats \cup { "VK_FORMAT_UNDEFINED", "VK_FORMAT_S8_UINT",
                        "VK_FORMAT_X8_D24_UNORM_PACK32", "VK_FORMAT_R8G8B8A8_UNORM" }

VARIABLES
    platform,                       \* what the driver reports (never changes)
    imageFormat,                    \* imageCreateInfo.format (never changes)
    vertexShaderFileSize,           \* bytes in the file at VERTEX_SHADER_SOURCE_PATH
    vertexShaderCodeSize,           \* size_t vertexShaderCodeSize
    vertexShaderCode,               \* uint32_t* vertexShaderCode: bytes allocated, written
    returned,                       \* the calls made and what they returned, in order
    allocated,                      \* the vkAllocateMemory calls that succeeded
    bound,                          \* the vkBind...Memory calls that succeeded
    pc,                             \* the call main is about to make
    code,                           \* VkResult code
    physicalDevices,                \* VkPhysicalDevice physicalDevices[]
    physicalDeviceCount,
    physicalDeviceIndex,
    queueFamilyIndex,
    physicalDeviceMemoryProperties, \* its memoryTypes; memoryTypeCount is the length
    imageMemoryRequirements,        \* its size and memoryTypeBits
    pixelReadbackBufferMemoryRequirements,
    memoryTypeIndex,
    created,                        \* resources in the order they were created
    destroyed,                      \* resources in the order they were released
    cbState,                        \* lifecycle state of commandBuffer
    recorded,                       \* the recording calls made on commandBuffer, in order
    fence,
    imageLayout,                    \* the layout the image is in on the device
    layoutHistory,                  \* the layouts the image has been in, in order
    devIdx,                         \* commands of the submission the device has executed
    deviceLost,
    waitResults,                    \* what the calls of vkWaitForFences returned, in order
    waitsBeforeSignal,              \* the number of waits returned when the fence was signaled
    deviceIdle,                     \* vkDeviceWaitIdle has returned
    queues,                         \* the queues obtained with vkGetDeviceQueue
    createInfos,                    \* the create infos the image and the buffer were created with
    submissions,                    \* the submissions vkQueueSubmit has accepted
    fenceHistory,                   \* the states the fence has been in, in order
    executions,                     \* the submissions the device has completed
    bufferData,                     \* the contents of pixelReadbackBufferMemory
    imageData,                      \* uint32_t* imageData
    depthData,                      \* float* depthData
    outputFile,                     \* the lines of out.dat
    copied                          \* the number of bytes memcpy has copied

selVars == <<physicalDevices, physicalDeviceCount, physicalDeviceIndex, queueFamilyIndex>>
memVars == <<physicalDeviceMemoryProperties, imageMemoryRequirements,
             pixelReadbackBufferMemoryRequirements, memoryTypeIndex>>
resVars == <<created, destroyed>>
cmdVars == <<cbState, recorded>>
devVars == <<fence, imageLayout, layoutHistory, devIdx, deviceLost, waitsBeforeSignal>>
syncVars == <<waitResults, deviceIdle>>
bindVars == <<allocated, bound>>
envVars == <<platform, imageFormat, vertexShaderFileSize>>
shaderVars == <<vertexShaderCodeSize, vertexShaderCode>>
histVars == <<queues, createInfos, submissions, fenceHistory, executions>>
dataVars == <<bufferData, imageData, depthData, outputFile, copied>>
vars == <<envVars, shaderVars, histVars, dataVars, returned, bindVars, pc, code, selVars, memVars,
         resVars, cmdVars, devVars, syncVars>>

\* an array of size bytes, seen as the 32-bit words that lie inside it
Array(size, words) == [size |-> size, words |-> words]

NoArray == Array(0, <<>>)

\* VkMemoryRequirements
MemoryRequirements(size, memoryTypeBits) == [size |-> size, memoryTypeBits |-> memoryTypeBits]

\* n rounded up to a multiple of granularity
RoundUp(n, granularity) == ((n + granularity - 1) \div granularity) * granularity

(***************************************************************************)
(* The state of main before its first call.                                *)
(***************************************************************************)
StartWith(p, f, n, at) ==
    /\ platform = p
    /\ imageFormat = f
    /\ vertexShaderFileSize = n
    /\ vertexShaderCodeSize = 0
    /\ vertexShaderCode = [allocated |-> 0, written |-> 0]
    /\ returned = <<>>
    /\ allocated = <<>>
    /\ bound = <<>>
    /\ pc = at
    /\ code = VK_SUCCESS
    /\ physicalDevices = <<>>
    /\ physicalDeviceCount = MAX_PHYSICAL_DEVICE_COUNT
    /\ physicalDeviceIndex = 0
    /\ queueFamilyIndex = 0
    /\ physicalDeviceMemoryProperties = <<>>
    /\ imageMemoryRequirements = MemoryRequirements(0, 0)
    /\ pixelReadbackBufferMemoryRequirements = MemoryRequirements(0, 0)
    /\ memoryTypeIndex = 0
    /\ created = <<>>
    /\ destroyed = <<>>
    /\ cbState = "NONE"
    /\ recorded = <<>>
    /\ fence = "NONE"
    /\ imageLayout = "NONE"
    /\ layoutHistory = <<>>
    /\ devIdx = 0
    /\ deviceLost = FALSE
    /\ waitResults = <<>>
    /\ waitsBeforeSignal = 0
    /\ deviceIdle = FALSE
    /\ queues = <<>>
    /\ createInfos = <<>>
    /\ submissions = <<>>
    /\ fenceHistory = <<>>
    /\ executions = 0
    /\ bufferData = NoArray
    /\ imageData = NoArray
    /\ depthData = <<>>
    /\ outputFile = <<>>
    /\ copied = 0

\* the shader file as the SPIR-V compiler writes it: whole 32-bit words
Start(p, f, at) == StartWith(p, f, 4 * MaxShaderWords, at)

Init == \E p \in Platforms : Start(p, "VK_FORMAT_D24_UNORM_S8_UINT", "vkCreateInstance")

(***************************************************************************)
(* Steps shared by the calls of main.                                      *)
(***************************************************************************)
\* return EXIT_FAILURE: nothing is released on the way out
ExitFailure == pc' = "EXIT_FAILURE"

\* one entry of the history of calls
Returned(call, result) == [call |-> call, result |-> result]

\* a vkCreate.../vkAllocate... call whose result is compared with VK_SUCCESS
Create(here, next, resource) ==
    /\ pc = here
    /\ \E r \in VkCallResults :
          /\ returned' = Append(returned, Returned(here, r))
          /\ IF r = VK_SUCCESS
             THEN /\ created' = Append(created, resource)
                  /\ pc' = next
             ELSE /\ ExitFailure
                  /\ UNCHANGED created
    /\ UNCHANGED destroyed

\* a vkDestroy.../vkFree... call: no result
Destroy(here, next, resource) ==
    /\ pc = here
    /\ destroyed' = Append(destroyed, resource)
    /\ pc' = next
    /\ UNCHANGED <<created, returned>>

(***************************************************************************)
(* PART 1: instance, physical device, queue family, logical device.        *)
(***************************************************************************)
vkCreateInstance ==
    /\ Create("vkCreateInstance", "vkEnumeratePhysicalDevices", "instance")
    /\ UNCHANGED <<envVars, shaderVars, histVars, dataVars, bindVars, code, selVars,
                   memVars, cmdVars, devVars, syncVars>>

\* enumeration without the test of physicalDeviceCount == 0

\* a program for which every result but VK_SUCCESS is fatal
vkEnumeratePhysicalDevices_IncompleteFatal ==
    /\ pc = "vkEnumeratePhysicalDevices"
    /\ \E failed \in BOOLEAN :
          LET available == Len(platform.devices)
              count == Min(available, physicalDeviceCount)
              result == IF failed THEN "VK_ERROR_OUT_OF_HOST_MEMORY"
                        ELSE IF available > physicalDeviceCount THEN VK_INCOMPLETE
                        ELSE VK_SUCCESS
          IN  /\ code' = result
              /\ returned' = Append(returned, Returned("vkEnumeratePhysicalDevices", result))
              /\ IF result # VK_SUCCESS
                 THEN /\ ExitFailure
                      /\ UNCHANGED <<physicalDevices, physicalDeviceCount>>
                 ELSE /\ physicalDevices' = SubSeq(platform.devices, 1, count)
                      /\ physicalDeviceCount' = count
                      /\ IF count = 0
                         THEN ExitFailure
                         ELSE pc' = "SelectPhysicalDevice"
    /\ UNCHANGED <<envVars, shaderVars, histVars, dataVars, bindVars,
                   physicalDeviceIndex, queueFamilyIndex, memVars, resVars, cmdVars,
                   devVars, syncVars>>

vkEnumeratePhysicalDevices_NoCountCheck ==
    /\ pc = "vkEnumeratePhysicalDevices"
    /\ \E failed \in BOOLEAN :
          LET available == Len(platform.devices)
              count == Min(available, physicalDeviceCount)
              result == IF failed THEN "VK_ERROR_OUT_OF_HOST_MEMORY"
                        ELSE IF available > physicalDeviceCount THEN VK_INCOMPLETE
                        ELSE VK_SUCCESS
          IN  /\ code' = result
              /\ returned' = Append(returned, Returned("vkEnumeratePhysicalDevices", result))
              /\ IF result \notin {VK_SUCCESS, VK_INCOMPLETE}
                 THEN /\ ExitFailure
                      /\ UNCHANGED <<physicalDevices, physicalDeviceCount>>
                 ELSE /\ physicalDevices' = SubSeq(platform.devices, 1, count)
                      /\ physicalDeviceCount' = count
                      /\ pc' = "SelectPhysicalDevice"
    /\ UNCHANGED <<envVars, shaderVars, histVars, dataVars, bindVars,
                   physicalDeviceIndex, queueFamilyIndex, memVars, resVars, cmdVars,
                   devVars, syncVars>>

vkEnumeratePhysicalDevices ==
    /\ pc = "vkEnumeratePhysicalDevices"
    /\ \E failed \in BOOLEAN :
          LET available == Len(platform.devices)
              count == Min(available, physicalDeviceCount)
              result == IF failed THEN "VK_ERROR_OUT_OF_HOST_MEMORY"
                        ELSE IF available > physicalDeviceCount THEN VK_INCOMPLETE
                        ELSE VK_SUCCESS
          IN  /\ code' = result
              /\ returned' = Append(returned, Returned("vkEnumeratePhysicalDevices", result))
              /\ IF result \notin {VK_SUCCESS, VK_INCOMPLETE}
                 THEN /\ ExitFailure
                      /\ UNCHANGED <<physicalDevices, physicalDeviceCount>>
                 ELSE /\ physicalDevices' = SubSeq(platform.devices, 1, count)
                      /\ physicalDeviceCount' = count
                      /\ IF count = 0
                         THEN ExitFailure
                         ELSE pc' = "SelectPhysicalDevice"
    /\ UNCHANGED <<envVars, shaderVars, histVars, dataVars, bindVars,
                   physicalDeviceIndex, queueFamilyIndex, memVars, resVars, cmdVars,
                   devVars, syncVars>>

\* no test of the device type
IsGpu_AnyDevice(deviceType) == TRUE

IsGpu(deviceType) == deviceType \in {"DISCRETE_GPU", "INTEGRATED_GPU"}

\* a test of the graphics flag alone
QueueFamilySuitable_GraphicsOnly(flags) == "GRAPHICS" \in flags

QueueFamilySuitable(flags) == "GRAPHICS" \in flags /\ "TRANSFER" \in flags

\* for (queueFamilyIndex = 0; queueFamilyIndex < queueFamiliesCount; ++queueFamilyIndex)
RECURSIVE QueueFamilyLoop(_, _, _)
QueueFamilyLoop(queueFamilyProperties, queueFamiliesCount, index) ==
    IF index < queueFamiliesCount
    THEN IF QueueFamilySuitable(queueFamilyProperties[index + 1])
         THEN index
         ELSE QueueFamilyLoop(queueFamilyProperties, queueFamiliesCount, index + 1)
    ELSE index

\* for (physicalDeviceIndex = 0; physicalDeviceIndex < physicalDeviceCount; ++physicalDeviceIndex)
\* the value is the pair of indices the loop is left with
RECURSIVE PhysicalDeviceLoop(_, _, _, _)
PhysicalDeviceLoop(devices, count, index, familyIndex) ==
    IF index < count
    THEN LET properties == devices[index + 1]
             queueFamiliesCount ==
                 Min(Len(properties.queueFamilies), MAX_PHYSICAL_DEVICE_QUEUE_FAMILIES)
             found == QueueFamilyLoop(properties.queueFamilies, queueFamiliesCount, 0)
         IN  IF ~IsGpu(properties.deviceType)
             THEN PhysicalDeviceLoop(devices, count, index + 1, familyIndex)
             ELSE IF found = queueFamiliesCount
             THEN PhysicalDeviceLoop(devices, count, index + 1, found)
             ELSE [physicalDeviceIndex |-> index, queueFamilyIndex |-> found]
    ELSE [physicalDeviceIndex |-> index, queueFamilyIndex |-> familyIndex]

SelectPhysicalDevice ==
    /\ pc = "SelectPhysicalDevice"
    /\ LET selected == PhysicalDeviceLoop(physicalDevices, physicalDeviceCount, 0, 0)
       IN  /\ physicalDeviceIndex' = selected.physicalDeviceIndex
           /\ queueFamilyIndex' = selected.queueFamilyIndex
           /\ IF selected.physicalDeviceIndex = physicalDeviceCount
              THEN ExitFailure
              ELSE pc' = "vkCreateDevice"
    /\ UNCHANGED <<envVars, shaderVars, histVars, dataVars, returned, bindVars, code,
                   physicalDevices, physicalDeviceCount, memVars, resVars, cmdVars,
                   devVars, syncVars>>

\* vkCreateDevice with one queue of the selected family, then vkGetDeviceQueue for
\* queue 0 of that family

vkCreateDevice ==
    /\ Create("vkCreateDevice", "vkCreateImage", "device")
    /\ queues' = IF pc' = "EXIT_FAILURE" THEN queues
                 ELSE Append(queues, [queueFamilyIndex |-> queueFamilyIndex, queueIndex |-> 0])
    /\ UNCHANGED <<envVars, shaderVars, createInfos, submissions, fenceHistory,
                   executions, dataVars, bindVars, code, selVars, memVars, cmdVars,
                   devVars, syncVars>>

(***************************************************************************)
(* PART 2: the image, the readback buffer and their memory.                *)
(***************************************************************************)
IMAGE_WIDTH == 20
IMAGE_HEIGHT == 20

\* the size of the depth component alone
formatSize_DepthOnly(format) ==
    CASE format = "VK_FORMAT_D16_UNORM" -> 2
      [] format = "VK_FORMAT_D16_UNORM_S8_UINT" -> 2
      [] format = "VK_FORMAT_D24_UNORM_S8_UINT" -> 3
      [] format = "VK_FORMAT_D32_SFLOAT" -> 4
      [] format = "VK_FORMAT_D32_SFLOAT_S8_UINT" -> 4
      [] OTHER -> 0

formatSize(format) ==
    CASE format = "VK_FORMAT_D16_UNORM" -> 2
      [] format = "VK_FORMAT_D16_UNORM_S8_UINT" -> 3
      [] format = "VK_FORMAT_D24_UNORM_S8_UINT" -> 4
      [] format = "VK_FORMAT_D32_SFLOAT" -> 4
      [] format = "VK_FORMAT_D32_SFLOAT_S8_UINT" -> 5
      [] OTHER -> 0

imageCreateInfo == [format |-> imageFormat, initialLayout |-> "UNDEFINED"]

vkCreateImage ==
    /\ pc = "vkCreateImage"
    /\ \E r \in VkCallResults :
          /\ code' = r
          /\ returned' = Append(returned, Returned("vkCreateImage", r))
          /\ IF r = VK_SUCCESS
             THEN /\ created' = Append(created, "image")
                  /\ createInfos' = Append(createInfos, [resource |-> "image",
                                                         format |-> imageCreateInfo.format])
                  /\ imageLayout' = imageCreateInfo.initialLayout
                  /\ layoutHistory' = <<imageCreateInfo.initialLayout>>
                  /\ pc' = "SelectImageMemoryType"
             ELSE /\ ExitFailure
                  /\ UNCHANGED <<created, createInfos, imageLayout, layoutHistory>>
    /\ UNCHANGED <<envVars, shaderVars, queues, submissions, fenceHistory, executions,
                   dataVars, bindVars, selVars, memVars, destroyed, cmdVars, fence,
                   devIdx, deviceLost, waitsBeforeSignal, syncVars>>

\* no test of memoryTypeBits
BitSet_Ignored(memoryTypeBits, index) == TRUE

\* memoryTypeBits & (1 << memoryTypeIndex)
BitSet(memoryTypeBits, index) == (memoryTypeBits \div Pow2(index)) % 2 = 1

\* (propertyFlags & required) without the comparison: any common flag passes
HasProperties_AnyFlag(propertyFlags, required) == (propertyFlags \cap required) # {}

\* (propertyFlags & required) == required
HasProperties(propertyFlags, required) == (propertyFlags \cap required) = required

\* for (memoryTypeIndex = 0; memoryTypeIndex < memoryTypeCount; ++memoryTypeIndex)
RECURSIVE MemoryTypeLoop(_, _, _, _)
MemoryTypeLoop(memoryTypeBits, memoryTypes, required, index) ==
    IF index < Len(memoryTypes)
    THEN IF BitSet(memoryTypeBits, index) /\ HasProperties(memoryTypes[index + 1], required)
         THEN index
         ELSE MemoryTypeLoop(memoryTypeBits, memoryTypes, required, index + 1)
    ELSE index

imageMemoryProperties == {"DEVICE_LOCAL"}
pixelReadbackBufferMemoryProperties == {"HOST_VISIBLE", "HOST_COHERENT"}

\* vkAllocateMemory has succeeded
Allocation(memory, allocationSize, typeIndex) ==
    [memory |-> memory, allocationSize |-> allocationSize, memoryTypeIndex |-> typeIndex]

\* vkBindImageMemory or vkBindBufferMemory has succeeded
Binding(resource, memory, memoryOffset) ==
    [resource |-> resource, memory |-> memory, memoryOffset |-> memoryOffset]

\* vkGetImageMemoryRequirements
vkGetImageMemoryRequirements ==
    MemoryRequirements(platform.requirements.imageSize, platform.memory.imageTypeBits)

SelectImageMemoryType ==
    /\ pc = "SelectImageMemoryType"
    /\ imageMemoryRequirements' = vkGetImageMemoryRequirements
    /\ physicalDeviceMemoryProperties' = platform.memory.memoryTypes
    /\ memoryTypeIndex' = MemoryTypeLoop(platform.memory.imageTypeBits,
                                         platform.memory.memoryTypes,
                                         imageMemoryProperties, 0)
    /\ IF memoryTypeIndex' = Len(platform.memory.memoryTypes)
       THEN ExitFailure
       ELSE pc' = "vkAllocateMemory_imageMemory"
    /\ UNCHANGED <<envVars, shaderVars, histVars, dataVars, returned, bindVars, code,
                   selVars, pixelReadbackBufferMemoryRequirements, resVars, cmdVars,
                   devVars, syncVars>>

\* imageAllocateInfo.allocationSize = imageMemoryRequirements.size
vkAllocateMemory_imageMemory ==
    /\ Create("vkAllocateMemory_imageMemory", "vkBindImageMemory", "imageMemory")
    /\ allocated' = IF pc' = "EXIT_FAILURE" THEN allocated
                    ELSE Append(allocated, Allocation("imageMemory",
                                                      imageMemoryRequirements.size,
                                                      memoryTypeIndex))
    /\ UNCHANGED <<envVars, shaderVars, histVars, dataVars, bound, code, selVars,
                   memVars, cmdVars, devVars, syncVars>>

\* a call that creates nothing and whose failure is fatal
Call(here, next) ==
    /\ pc = here
    /\ \E r \in VkCallResults :
          /\ returned' = Append(returned, Returned(here, r))
          /\ IF r = VK_SUCCESS THEN pc' = next ELSE ExitFailure

\* vkBindImageMemory(device, image, imageMemory, 0)
vkBindImageMemory ==
    /\ Call("vkBindImageMemory", "vkCreateImageView")
    /\ bound' = IF pc' = "EXIT_FAILURE" THEN bound
                ELSE Append(bound, Binding("image", "imageMemory", 0))
    /\ UNCHANGED <<envVars, shaderVars, histVars, dataVars, allocated, code, selVars,
                   memVars, resVars, cmdVars, devVars, syncVars>>

vkCreateImageView ==
    /\ Create("vkCreateImageView", "pixelReadbackBufferSize", "imageView")
    /\ UNCHANGED <<envVars, shaderVars, histVars, dataVars, bindVars, code, selVars,
                   memVars, cmdVars, devVars, syncVars>>


\* a size computed from a format written out a second time
pixelReadbackBufferSize_OtherFormat ==
    formatSize("VK_FORMAT_D24_UNORM_S8_UINT") * IMAGE_WIDTH * IMAGE_HEIGHT

pixelReadbackBufferSize == formatSize(imageCreateInfo.format) * IMAGE_WIDTH * IMAGE_HEIGHT

CheckPixelReadbackBufferSize ==
    /\ pc = "pixelReadbackBufferSize"
    /\ IF pixelReadbackBufferSize = 0 THEN ExitFailure ELSE pc' = "vkCreateBuffer"
    /\ UNCHANGED <<envVars, shaderVars, histVars, dataVars, returned, bindVars, code,
                   selVars, memVars, resVars, cmdVars, devVars, syncVars>>

\* pixelReadbackBufferCreateInfo.size = pixelReadbackBufferSize

vkCreateBuffer ==
    /\ Create("vkCreateBuffer", "SelectBufferMemoryType", "pixelReadbackBuffer")
    /\ createInfos' = IF pc' = "EXIT_FAILURE" THEN createInfos
                      ELSE Append(createInfos, [resource |-> "pixelReadbackBuffer",
                                                size |-> pixelReadbackBufferSize])
    /\ UNCHANGED <<envVars, shaderVars, queues, submissions, fenceHistory, executions,
                   dataVars, bindVars, code, selVars, memVars, cmdVars, devVars,
                   syncVars>>

\* vkGetBufferMemoryRequirements for a buffer of pixelReadbackBufferCreateInfo.size
vkGetBufferMemoryRequirements ==
    MemoryRequirements(RoundUp(pixelReadbackBufferSize, platform.requirements.bufferGranularity),
                       platform.memory.bufferTypeBits)

SelectBufferMemoryType ==
    /\ pc = "SelectBufferMemoryType"
    /\ pixelReadbackBufferMemoryRequirements' = vkGetBufferMemoryRequirements
    /\ memoryTypeIndex' = MemoryTypeLoop(platform.memory.bufferTypeBits,
                                         physicalDeviceMemoryProperties,
                                         pixelReadbackBufferMemoryProperties, 0)
    /\ IF memoryTypeIndex' = Len(physicalDeviceMemoryProperties)
       THEN ExitFailure
       ELSE pc' = "vkAllocateMemory_pixelReadbackBufferMemory"
    /\ UNCHANGED <<envVars, shaderVars, histVars, dataVars, returned, bindVars, code,
                   selVars, physicalDeviceMemoryProperties, imageMemoryRequirements,
                   resVars, cmdVars, devVars, syncVars>>

\* pixelReadbackBufferAllocateInfo.allocationSize = pixelReadbackBufferSize
vkAllocateMemory_pixelReadbackBufferMemory ==
    /\ Create("vkAllocateMemory_pixelReadbackBufferMemory", "vkBindBufferMemory",
              "pixelReadbackBufferMemory")
    /\ allocated' = IF pc' = "EXIT_FAILURE" THEN allocated
                    ELSE Append(allocated, Allocation("pixelReadbackBufferMemory",
                                                      pixelReadbackBufferSize,
                                                      memoryTypeIndex))
    /\ UNCHANGED <<envVars, shaderVars, histVars, dataVars, bound, code, selVars,
                   memVars, cmdVars, devVars, syncVars>>

\* vkBindBufferMemory(device, pixelReadbackBuffer, pixelReadbackBufferMemory, 0)

\* a program that binds the buffer to the image's memory
vkBindBufferMemory_ToImageMemory ==
    /\ Call("vkBindBufferMemory", "vkCreateRenderPass")
    /\ bound' = IF pc' = "EXIT_FAILURE" THEN bound
                ELSE Append(bound, Binding("pixelReadbackBuffer", "imageMemory", 0))
    /\ UNCHANGED <<envVars, shaderVars, histVars, dataVars, allocated, code, selVars,
                   memVars, resVars, cmdVars, devVars, syncVars>>

vkBindBufferMemory ==
    /\ Call("vkBindBufferMemory", "vkCreateRenderPass")
    /\ bound' = IF pc' = "EXIT_FAILURE" THEN bound
                ELSE Append(bound, Binding("pixelReadbackBuffer", "pixelReadbackBufferMemory", 0))
    /\ UNCHANGED <<envVars, shaderVars, histVars, dataVars, allocated, code, selVars,
                   memVars, resVars, cmdVars, devVars, syncVars>>

(***************************************************************************)
(* PART 3: render pass, framebuffer, shader module, pipeline.              *)
(***************************************************************************)
attachmentDescription ==
    [loadOp |-> "CLEAR", storeOp |-> "STORE",
     initialLayout |-> "UNDEFINED",
     finalLayout |-> "DEPTH_STENCIL_ATTACHMENT_OPTIMAL"]

attachmentReference == [attachment |-> 0, layout |-> "DEPTH_STENCIL_ATTACHMENT_OPTIMAL"]

vkCreateRenderPass ==
    /\ Create("vkCreateRenderPass", "vkCreateFramebuffer", "renderPass")
    /\ UNCHANGED <<envVars, shaderVars, histVars, dataVars, bindVars, code, selVars,
                   memVars, cmdVars, devVars, syncVars>>

vkCreateFramebuffer ==
    /\ Create("vkCreateFramebuffer", "access", "framebuffer")
    /\ UNCHANGED <<envVars, shaderVars, histVars, dataVars, bindVars, code, selVars,
                   memVars, cmdVars, devVars, syncVars>>

\* access(VERTEX_SHADER_SOURCE_PATH, F_OK)
AccessVertexShader ==
    /\ pc = "access"
    /\ \E missing \in BOOLEAN : IF missing THEN ExitFailure ELSE pc' = "fread"
    /\ UNCHANGED <<envVars, shaderVars, histVars, dataVars, returned, bindVars, code,
                   selVars, memVars, resVars, cmdVars, devVars, syncVars>>

\* malloc(1 + 4 * (vertexShaderCodeSize / 4))
MallocSize(size) == 1 + (4 * (size \div 4))

\* fopen, ftell, malloc, fread: fread writes the bytes it reads into vertexShaderCode,
\* past its end when it is too small, which can also end the program
ReadVertexShader ==
    /\ pc = "fread"
    /\ vertexShaderCodeSize' = vertexShaderFileSize
    /\ created' = Append(created, "vertexShaderCode")
    /\ \E complete \in BOOLEAN :
          IF complete
          THEN /\ vertexShaderCode' = [allocated |-> MallocSize(vertexShaderFileSize),
                                       written |-> vertexShaderFileSize]
               /\ \/ pc' = "vkCreateShaderModule"
                  \/ /\ vertexShaderFileSize > MallocSize(vertexShaderFileSize)
                     /\ pc' = "SIGSEGV"
          ELSE /\ vertexShaderCode' = [allocated |-> MallocSize(vertexShaderFileSize),
                                       written |-> 0]
               /\ ExitFailure
    /\ UNCHANGED <<envVars, histVars, dataVars, returned, bindVars, code, selVars,
                   memVars, destroyed, cmdVars, devVars, syncVars>>

vkCreateShaderModule ==
    /\ Create("vkCreateShaderModule", "free_vertexShaderCode", "vertexShaderModule")
    /\ UNCHANGED <<envVars, shaderVars, histVars, dataVars, bindVars, code, selVars,
                   memVars, cmdVars, devVars, syncVars>>

free_vertexShaderCode ==
    /\ Destroy("free_vertexShaderCode", "vkCreatePipelineLayout", "vertexShaderCode")
    /\ UNCHANGED <<envVars, shaderVars, histVars, dataVars, bindVars, code, selVars,
                   memVars, cmdVars, devVars, syncVars>>

\* the shader module destroyed on the way out when the call fails
vkCreatePipelineLayout_ReleaseOnFailure ==
    /\ pc = "vkCreatePipelineLayout"
    /\ \E r \in VkCallResults :
          /\ returned' = Append(returned, Returned("vkCreatePipelineLayout", r))
          /\ IF r = VK_SUCCESS
             THEN /\ created' = Append(created, "pipelineLayout")
                  /\ pc' = "vkCreateGraphicsPipelines"
                  /\ UNCHANGED destroyed
             ELSE /\ destroyed' = Append(destroyed, "vertexShaderModule")
                  /\ ExitFailure
                  /\ UNCHANGED created
    /\ UNCHANGED <<envVars, shaderVars, histVars, dataVars, bindVars, code, selVars,
                   memVars, cmdVars, devVars, syncVars>>

vkCreatePipelineLayout ==
    /\ Create("vkCreatePipelineLayout", "vkCreateGraphicsPipelines", "pipelineLayout")
    /\ UNCHANGED <<envVars, shaderVars, histVars, dataVars, bindVars, code, selVars,
                   memVars, cmdVars, devVars, syncVars>>

vkCreateGraphicsPipelines ==
    /\ Create("vkCreateGraphicsPipelines", "vkCreateCommandPool", "graphicsPipeline")
    /\ UNCHANGED <<envVars, shaderVars, histVars, dataVars, bindVars, code, selVars,
                   memVars, cmdVars, devVars, syncVars>>

(***************************************************************************)
(* PART 4: command pool, command buffer, recording.                        *)
(***************************************************************************)

\* the pool lets each of its command buffers be reset on its own, and a begin on a
\* buffer that has been recorded before puts it into the initial state first
commandPoolCreateInfo == [flags |-> {"VK_COMMAND_POOL_CREATE_RESET_COMMAND_BUFFER_BIT"}]

vkCreateCommandPool ==
    /\ Create("vkCreateCommandPool", "vkAllocateCommandBuffers", "commandPool")
    /\ UNCHANGED <<envVars, shaderVars, histVars, dataVars, bindVars, code, selVars,
                   memVars, cmdVars, devVars, syncVars>>

\* the allocated command buffer is in the initial state
vkAllocateCommandBuffers ==
    /\ Create("vkAllocateCommandBuffers", "vkBeginCommandBuffer", "commandBuffer")
    /\ cbState' = IF pc' = "EXIT_FAILURE" THEN cbState ELSE "INITIAL"
    /\ UNCHANGED <<envVars, shaderVars, histVars, dataVars, bindVars, code, selVars,
                   memVars, recorded, devVars, syncVars>>

clearValue == [depth |-> 1, stencil |-> 0]

\* a barrier that names UNDEFINED as the old layout
imageMemoryBarrier_FromUndefined ==
    [srcAccessMask |-> "DEPTH_STENCIL_ATTACHMENT_WRITE",
     dstAccessMask |-> "TRANSFER_READ",
     oldLayout |-> "UNDEFINED",
     newLayout |-> "TRANSFER_SRC_OPTIMAL"]

imageMemoryBarrier ==
    [srcAccessMask |-> "DEPTH_STENCIL_ATTACHMENT_WRITE",
     dstAccessMask |-> "TRANSFER_READ",
     oldLayout |-> "DEPTH_STENCIL_ATTACHMENT_OPTIMAL",
     newLayout |-> "TRANSFER_SRC_OPTIMAL"]

\* one recording call on commandBuffer
Record(here, next, command) ==
    /\ pc = here
    /\ recorded' = Append(recorded, command)
    /\ pc' = next
    /\ UNCHANGED returned

\* the result of vkBeginCommandBuffer is not looked at: main goes on either way,
\* and only a successful begin puts the buffer into the recording state

\* the states of the command buffer in which a begin is accepted
BeginAccepted(state) ==
    \/ state = "INITIAL"
    \/ /\ "VK_COMMAND_POOL_CREATE_RESET_COMMAND_BUFFER_BIT" \in commandPoolCreateInfo.flags
       /\ state \in {"EXECUTABLE", "INVALID"}

vkBeginCommandBuffer ==
    /\ pc = "vkBeginCommandBuffer"
    /\ recorded' = Append(recorded, [op |-> "vkBeginCommandBuffer"])
    /\ \E r \in VkCallResults :
          LET result == IF BeginAccepted(cbState) THEN r ELSE "VK_ERROR_OUT_OF_HOST_MEMORY"
          IN  /\ returned' = Append(returned, Returned("vkBeginCommandBuffer", result))
              /\ cbState' = IF result = VK_SUCCESS THEN "RECORDING" ELSE cbState
    /\ pc' = "vkCmdBeginRenderPass"
    /\ UNCHANGED <<envVars, shaderVars, histVars, dataVars, bindVars, code, selVars,
                   memVars, resVars, devVars, syncVars>>

vkCmdBeginRenderPass ==
    /\ Record("vkCmdBeginRenderPass", "vkCmdBindPipeline",
              [op |-> "vkCmdBeginRenderPass", clearValue |-> clearValue])
    /\ UNCHANGED <<envVars, shaderVars, histVars, dataVars, bindVars, code, selVars,
                   memVars, resVars, cbState, devVars, syncVars>>

vkCmdBindPipeline ==
    /\ Record("vkCmdBindPipeline", "vkCmdDraw", [op |-> "vkCmdBindPipeline"])
    /\ UNCHANGED <<envVars, shaderVars, histVars, dataVars, bindVars, code, selVars,
                   memVars, resVars, cbState, devVars, syncVars>>

\* vertex count and instance count exchanged
vkCmdDraw_CountsExchanged ==
    /\ Record("vkCmdDraw", "vkCmdEndRenderPass",
              [op |-> "vkCmdDraw", vertexCount |-> 1, instanceCount |-> 3,
               firstVertex |-> 0, firstInstance |-> 0])
    /\ UNCHANGED <<envVars, shaderVars, histVars, dataVars, bindVars, code, selVars,
                   memVars, resVars, cbState, devVars, syncVars>>

vkCmdDraw ==
    /\ Record("vkCmdDraw", "vkCmdEndRenderPass",
              [op |-> "vkCmdDraw", vertexCount |-> 3, instanceCount |-> 1,
               firstVertex |-> 0, firstInstance |-> 0])
    /\ UNCHANGED <<envVars, shaderVars, histVars, dataVars, bindVars, code, selVars,
                   memVars, resVars, cbState, devVars, syncVars>>

\* the barrier left out: the copy follows the render pass directly
vkCmdEndRenderPass_NoBarrier ==
    /\ Record("vkCmdEndRenderPass", "vkCmdCopyImageToBuffer", [op |-> "vkCmdEndRenderPass"])
    /\ UNCHANGED <<envVars, shaderVars, histVars, dataVars, bindVars, code, selVars,
                   memVars, resVars, cbState, devVars, syncVars>>

vkCmdEndRenderPass ==
    /\ Record("vkCmdEndRenderPass", "vkCmdPipelineBarrier", [op |-> "vkCmdEndRenderPass"])
    /\ UNCHANGED <<envVars, shaderVars, histVars, dataVars, bindVars, code, selVars,
                   memVars, resVars, cbState, devVars, syncVars>>

vkCmdPipelineBarrier ==
    /\ Record("vkCmdPipelineBarrier", "vkCmdCopyImageToBuffer",
              [op |-> "vkCmdPipelineBarrier", barrier |-> imageMemoryBarrier])
    /\ UNCHANGED <<envVars, shaderVars, histVars, dataVars, bindVars, code, selVars,
                   memVars, resVars, cbState, devVars, syncVars>>

vkCmdCopyImageToBuffer ==
    /\ Record("vkCmdCopyImageToBuffer", "vkEndCommandBuffer",
              [op |-> "vkCmdCopyImageToBuffer", srcImageLayout |-> "TRANSFER_SRC_OPTIMAL"])
    /\ UNCHANGED <<envVars, shaderVars, histVars, dataVars, bindVars, code, selVars,
                   memVars, resVars, cbState, devVars, syncVars>>

\* ending succeeds only on a buffer that is being recorded; a failure is fatal
vkEndCommandBuffer ==
    /\ pc = "vkEndCommandBuffer"
    /\ recorded' = Append(recorded, [op |-> "vkEndCommandBuffer"])
    /\ \E r \in VkCallResults :
          LET result == IF cbState = "RECORDING" THEN r ELSE "VK_ERROR_OUT_OF_HOST_MEMORY"
          IN  /\ returned' = Append(returned, Returned("vkEndCommandBuffer", result))
              /\ IF result = VK_SUCCESS
                 THEN /\ cbState' = "EXECUTABLE"
                      /\ pc' = "vkCreateFence"
                 ELSE /\ cbState' = "INVALID"
                      /\ ExitFailure
    /\ UNCHANGED <<envVars, shaderVars, histVars, dataVars, bindVars, code, selVars,
                   memVars, resVars, devVars, syncVars>>

(***************************************************************************)
(* Submission and the fence.                                               *)
(***************************************************************************)
\* a fence created with VK_FENCE_CREATE_SIGNALED_BIT
vkCreateFence_Signaled ==
    /\ Create("vkCreateFence", "vkQueueSubmit", "fence")
    /\ fence' = IF pc' = "EXIT_FAILURE" THEN fence ELSE "SIGNALED"
    /\ fenceHistory' = IF pc' = "EXIT_FAILURE" THEN fenceHistory
                       ELSE Append(fenceHistory, "SIGNALED")
    /\ UNCHANGED <<envVars, shaderVars, queues, createInfos, submissions, executions,
                   dataVars, bindVars, code, selVars, memVars, cmdVars, imageLayout,
                   layoutHistory, devIdx, deviceLost, waitsBeforeSignal, syncVars>>

\* fenceCreateInfo has no flags: the fence is created unsignaled
vkCreateFence ==
    /\ Create("vkCreateFence", "vkQueueSubmit", "fence")
    /\ fence' = IF pc' = "EXIT_FAILURE" THEN fence ELSE "UNSIGNALED"
    /\ fenceHistory' = IF pc' = "EXIT_FAILURE" THEN fenceHistory
                       ELSE Append(fenceHistory, "UNSIGNALED")
    /\ UNCHANGED <<envVars, shaderVars, queues, createInfos, submissions, executions,
                   dataVars, bindVars, code, selVars, memVars, cmdVars, imageLayout,
                   layoutHistory, devIdx, deviceLost, waitsBeforeSignal, syncVars>>

\* the result of vkQueueSubmit not looked at
\* vkQueueSubmit(queue, 1, &submitInfo, fence): one command buffer, as the queue
\* finds it and the fence when the submission is accepted
Submission ==
    [queue |-> Len(queues), commandBufferCount |-> 1, commandBuffer |-> cbState,
     fence |-> fence]

vkQueueSubmit_ResultIgnored ==
    /\ pc = "vkQueueSubmit"
    /\ \E r \in VkCallResults :
          /\ returned' = Append(returned, Returned("vkQueueSubmit", r))
          /\ cbState' = IF r = VK_SUCCESS THEN "PENDING" ELSE cbState
          /\ submissions' = IF r = VK_SUCCESS THEN Append(submissions, Submission)
                            ELSE submissions
          /\ pc' = "vkWaitForFences"
    /\ UNCHANGED <<envVars, shaderVars, queues, createInfos, fenceHistory, executions,
                   dataVars, bindVars, code, selVars, memVars, resVars, recorded,
                   devVars, syncVars>>


\* a program that hands the command buffer to the queue twice
vkQueueSubmit_Twice ==
    /\ pc = "vkQueueSubmit"
    /\ \E r \in VkCallResults :
          /\ returned' = Append(returned, Returned("vkQueueSubmit", r))
          /\ IF r = VK_SUCCESS
             THEN /\ cbState' = "PENDING"
                  /\ submissions' = Append(Append(submissions, Submission), Submission)
                  /\ pc' = "vkWaitForFences"
             ELSE /\ ExitFailure
                  /\ UNCHANGED <<cbState, submissions>>
    /\ UNCHANGED <<envVars, shaderVars, queues, createInfos, fenceHistory, executions,
                   dataVars, bindVars, code, selVars, memVars, resVars, recorded,
                   devVars, syncVars>>

vkQueueSubmit ==
    /\ pc = "vkQueueSubmit"
    /\ \E r \in VkCallResults :
          /\ returned' = Append(returned, Returned("vkQueueSubmit", r))
          /\ IF r = VK_SUCCESS
             THEN /\ cbState' = "PENDING"
                  /\ submissions' = Append(submissions, Submission)
                  /\ pc' = "vkWaitForFences"
             ELSE /\ ExitFailure
                  /\ UNCHANGED <<cbState, submissions>>
    /\ UNCHANGED <<envVars, shaderVars, queues, createInfos, fenceHistory, executions,
                   dataVars, bindVars, code, selVars, memVars, resVars, recorded,
                   devVars, syncVars>>

\* the commands the device executes: what was recorded between begin and end
SubmittedCommands ==
    SelectSeq(recorded, LAMBDA c : c.op \notin {"vkBeginCommandBuffer", "vkEndCommandBuffer"})

\* the layout a command leaves the image in
LayoutAfter(command, layout) ==
    CASE command.op = "vkCmdBeginRenderPass" -> attachmentReference.layout
      [] command.op = "vkCmdEndRenderPass" -> attachmentDescription.finalLayout
      [] command.op = "vkCmdPipelineBarrier" -> command.barrier.newLayout
      [] OTHER -> layout

\* the device executes the next command of the submission
(***************************************************************************)
(* Texels.  A uint32_t is kept as its two 16-bit halves; a float that is   *)
(* the quotient of two integers is kept as that quotient.                  *)
(***************************************************************************)
Word(hi, lo) == [hi |-> hi, lo |-> lo]

Float(num, den) == [num |-> num, den |-> den]

\* 0xFFFFFF
DepthMax == 16777215

imagePixelCount == IMAGE_WIDTH * IMAGE_HEIGHT

\* some 32-bit values a texel of the buffer can have
SpecialTexels ==
    << Word(0, 0),             \* 0x00000000
       Word(255, 65535),       \* 0x00FFFFFF
       Word(127, 65535),       \* 0x007FFFFF
       Word(65407, 65535),     \* 0xFF7FFFFF
       Word(65535, 65535),     \* 0xFFFFFFFF
       Word(43776, 0),         \* 0xAB000000
       Word(128, 0),           \* 0x00800000
       Word(0, 1),             \* 0x00000001
       Word(33023, 65534) >>   \* 0x80FFFFFE

\* what the buffer can hold after the copy, texel by texel
BufferImages == {"cleared", "triangle", "gradient", "special"}

TexelAt(bufferImage, i) ==
    CASE bufferImage = "cleared" -> Word(255, 65535)
      [] bufferImage = "triangle" ->
            LET row == i \div IMAGE_WIDTH
                col == i % IMAGE_WIDTH
            IN  IF row >= 5 /\ row < 15 /\ col >= 5 /\ col <= row
                THEN Word(34, 14890)         \* 0x00223A2A: 0.1337
                ELSE Word(255, 65535)
      [] bufferImage = "gradient" ->
            Word(256 * ((7 * i) % 256) + ((41943 * i) \div 65536), (41943 * i) % 65536)
      [] bufferImage = "special" -> SpecialTexels[(i % Len(SpecialTexels)) + 1]

\* size bytes filled from a buffer image
Filled(size, bufferImage) ==
    Array(size, [i \in 1..(size \div 4) |-> TexelAt(bufferImage, i - 1)])

DeviceExecute ==
    /\ cbState = "PENDING"
    /\ ~deviceLost
    /\ devIdx < Len(SubmittedCommands)
    /\ LET layout == LayoutAfter(SubmittedCommands[devIdx + 1], imageLayout)
       IN  /\ imageLayout' = layout
           /\ layoutHistory' = IF layout = imageLayout THEN layoutHistory
                               ELSE Append(layoutHistory, layout)
    /\ IF SubmittedCommands[devIdx + 1].op = "vkCmdCopyImageToBuffer"
       THEN \E bufferImage \in BufferImages :
               bufferData' = Filled(pixelReadbackBufferSize, bufferImage)
       ELSE UNCHANGED bufferData
    /\ devIdx' = devIdx + 1
    /\ UNCHANGED <<envVars, shaderVars, histVars, imageData, depthData, outputFile,
                   copied, returned, bindVars, pc, code, selVars, memVars, resVars,
                   cmdVars, fence, deviceLost, waitsBeforeSignal, syncVars>>

\* the submission has completed: the buffer is executable again, the fence signaled
DeviceComplete ==
    /\ cbState = "PENDING"
    /\ ~deviceLost
    /\ devIdx = Len(SubmittedCommands)
    /\ cbState' = "EXECUTABLE"
    /\ fence' = "SIGNALED"
    /\ fenceHistory' = Append(fenceHistory, "SIGNALED")
    /\ executions' = executions + 1
    /\ waitsBeforeSignal' = Len(waitResults)
    /\ UNCHANGED <<envVars, shaderVars, queues, createInfos, submissions, dataVars,
                   returned, bindVars, pc, code, selVars, memVars, resVars, recorded,
                   imageLayout, layoutHistory, devIdx, deviceLost, syncVars>>

\* a loop that retries on timeout only and falls through on an error
WaitLoopContinues_OnTimeoutOnly(result) == result = VK_TIMEOUT

\* a single wait: if instead of while
WaitLoopContinues_Never(result) == FALSE

\* while ((code = vkWaitForFences(...)) != VK_SUCCESS)
WaitLoopContinues(result) == result # VK_SUCCESS

\* what one call of vkWaitForFences can return
WaitOutcomes ==
    IF fence = "SIGNALED" THEN {VK_SUCCESS}
    ELSE IF Len(waitResults) >= MaxWaits THEN {}
    ELSE IF deviceLost THEN {"VK_ERROR_DEVICE_LOST"}
    ELSE {VK_TIMEOUT} \cup VkErrors

vkWaitForFences ==
    /\ pc = "vkWaitForFences"
    /\ \E r \in WaitOutcomes :
          /\ code' = r
          /\ waitResults' = Append(waitResults, r)
          /\ returned' = Append(returned, Returned("vkWaitForFences", r))
          /\ deviceLost' = (deviceLost \/ r = "VK_ERROR_DEVICE_LOST")
          /\ pc' = IF WaitLoopContinues(r) THEN "vkWaitForFences" ELSE "malloc_imageData"
    /\ UNCHANGED <<envVars, shaderVars, histVars, dataVars, bindVars, selVars, memVars,
                   resVars, cmdVars, fence, imageLayout, layoutHistory, devIdx,
                   waitsBeforeSignal, deviceIdle>>

(***************************************************************************)
(* STEP 5: pixel readback.                                                 *)
(***************************************************************************)
\* a host step that neither fails nor touches a resource
Step(here, next) ==
    /\ pc = here
    /\ pc' = next
    /\ UNCHANGED returned

\* malloc(pixelReadbackBufferCreateInfo.size): nothing is in the array yet

malloc_imageData ==
    /\ Step("malloc_imageData", "vkMapMemory")
    /\ created' = Append(created, "imageData")
    /\ imageData' = Array(pixelReadbackBufferSize, <<>>)
    /\ UNCHANGED <<envVars, shaderVars, histVars, bufferData, depthData, outputFile,
                   copied, bindVars, code, selVars, memVars, destroyed, cmdVars,
                   devVars, syncVars>>

\* the result of vkMapMemory is not looked at
vkMapMemory ==
    /\ pc = "vkMapMemory"
    /\ \E r \in VkCallResults : returned' = Append(returned, Returned("vkMapMemory", r))
    /\ pc' = "memcpy"
    /\ UNCHANGED <<envVars, shaderVars, histVars, dataVars, bindVars, code, selVars,
                   memVars, resVars, cmdVars, devVars, syncVars>>

\* memcpy(imageData, mappedImageBufferMemory, pixelReadbackBufferCreateInfo.size);
\* after a failed vkMapMemory, mappedImageBufferMemory has no value: the copy
\* reads from wherever it points, or the program is killed
memcpy ==
    /\ pc = "memcpy"
    /\ IF returned[Len(returned)].result = VK_SUCCESS
       THEN /\ imageData' = Array(pixelReadbackBufferSize,
                                  SubSeq(bufferData.words, 1, pixelReadbackBufferSize \div 4))
            /\ copied' = pixelReadbackBufferSize
            /\ pc' = "vkUnmapMemory"
       ELSE \/ /\ imageData' = Filled(pixelReadbackBufferSize, "special")
               /\ copied' = pixelReadbackBufferSize
               /\ pc' = "vkUnmapMemory"
            \/ /\ pc' = "SIGSEGV"
               /\ UNCHANGED <<imageData, copied>>
    /\ UNCHANGED returned
    /\ UNCHANGED <<envVars, shaderVars, histVars, bufferData, depthData, outputFile,
                   bindVars, code, selVars, memVars, resVars, cmdVars, devVars,
                   syncVars>>

vkUnmapMemory ==
    /\ Step("vkUnmapMemory", "malloc_depthData")
    /\ UNCHANGED <<envVars, shaderVars, histVars, dataVars, bindVars, code, selVars,
                   memVars, resVars, cmdVars, devVars, syncVars>>

\* the rule of a 23-bit depth: shift right by one, divide by 2^23 - 1
DecodeTexel_ShiftByOne(texel) ==
    LET shifted == (((texel.hi % 256) * 65536) + (texel.lo % 65536)) \div 2
    IN  IF shifted = 8388607 THEN Float(0, 1) ELSE Float(shifted, 8388607)

\* a mask one bit too wide: 0x1FFFFFF & imageData[i]
DecodeTexel_WideMask(texel) ==
    LET unormDepth == ((texel.hi % 512) * 65536) + (texel.lo % 65536)
    IN  IF unormDepth = DepthMax THEN Float(0, 1) ELSE Float(unormDepth, DepthMax)

\* the body of the decode loop:
\*   unormDepth = 0xFFFFFF & imageData[i]; depthData[i] = ((float) unormDepth) / 0xFFFFFF;
\*   if (unormDepth == 0xFFFFFF) depthData[i] = 0;
DecodeTexel(texel) ==
    LET unormDepth == ((texel.hi % 256) * 65536) + (texel.lo % 65536)
    IN  IF unormDepth = DepthMax THEN Float(0, 1) ELSE Float(unormDepth, DepthMax)

\* imageData[i] for every i the loop reads, 0 <= i < IMAGE_WIDTH * IMAGE_HEIGHT; a
\* word past the end of the array is whatever lies there
WordsRead(array, beyond) ==
    [i \in 1..(IMAGE_WIDTH * IMAGE_HEIGHT) |->
        IF 4 * i <= array.size THEN array.words[i] ELSE TexelAt(beyond, i - 1)]

\* malloc(imagePixelCount * sizeof(float)) and the decode loop; a read past the end
\* of imageData can also end the program
malloc_depthData ==
    /\ pc = "malloc_depthData"
    /\ \/ /\ \E beyond \in (IF 4 * IMAGE_WIDTH * IMAGE_HEIGHT <= imageData.size
                             THEN {"cleared"} ELSE BufferImages) :
                depthData' = [i \in 1..imagePixelCount |->
                                 DecodeTexel(WordsRead(imageData, beyond)[i])]
          /\ created' = Append(created, "depthData")
          /\ pc' = "free_imageData"
       \/ /\ 4 * IMAGE_WIDTH * IMAGE_HEIGHT > imageData.size
          /\ pc' = "SIGSEGV"
          /\ UNCHANGED <<depthData, created>>
    /\ UNCHANGED returned
    /\ UNCHANGED <<envVars, shaderVars, histVars, bufferData, imageData, outputFile,
                   copied, bindVars, code, selVars, memVars, destroyed, cmdVars,
                   devVars, syncVars>>

free_imageData ==
    /\ Destroy("free_imageData", "fprintf", "imageData")
    /\ UNCHANGED <<envVars, shaderVars, histVars, dataVars, bindVars, code, selVars,
                   memVars, cmdVars, devVars, syncVars>>

\* "%.4f": the number of ten-thousandths, rounded to the nearest
Fixed4(x) ==
    LET hundredths == (x.num * 100) \div x.den
        rest == (x.num * 100) % x.den
        digits == (rest * 100) \div x.den
        remainder == (rest * 100) % x.den
    IN  (hundredths * 100) + digits + (IF 2 * remainder >= x.den THEN 1 ELSE 0)

\* the values written column by column
WriteOutputFile_ColumnMajor ==
    /\ Step("fprintf", "free_depthData")
    /\ outputFile' = [i \in 1..IMAGE_HEIGHT |->
                         [j \in 1..IMAGE_WIDTH |->
                             Fixed4(depthData[(IMAGE_HEIGHT * (j - 1)) + (i - 1) + 1])]]
    /\ UNCHANGED <<envVars, shaderVars, histVars, bufferData, imageData, depthData,
                   copied, bindVars, code, selVars, memVars, resVars, cmdVars, devVars,
                   syncVars>>

\* fopen, the two loops of fprintf, fclose:
\*   line i holds depthData[IMAGE_WIDTH * i + j] for 0 <= j < IMAGE_WIDTH
WriteOutputFile ==
    /\ Step("fprintf", "free_depthData")
    /\ outputFile' = [i \in 1..IMAGE_HEIGHT |->
                         [j \in 1..IMAGE_WIDTH |->
                             Fixed4(depthData[(IMAGE_WIDTH * (i - 1)) + (j - 1) + 1])]]
    /\ UNCHANGED <<envVars, shaderVars, histVars, bufferData, imageData, depthData,
                   copied, bindVars, code, selVars, memVars, resVars, cmdVars, devVars,
                   syncVars>>

free_depthData ==
    /\ Destroy("free_depthData", "vkDeviceWaitIdle", "depthData")
    /\ UNCHANGED <<envVars, shaderVars, histVars, dataVars, bindVars, code, selVars,
                   memVars, cmdVars, devVars, syncVars>>

(***************************************************************************)
(* STEP 6: cleanup.                                                        *)
(***************************************************************************)
\* returns once nothing is pending on the device (or the device is lost);
\* the result is not looked at
vkDeviceWaitIdle ==
    /\ pc = "vkDeviceWaitIdle"
    /\ cbState # "PENDING" \/ deviceLost
    /\ \E r \in VkCallResults : returned' = Append(returned, Returned("vkDeviceWaitIdle", r))
    /\ pc' = "vkDestroyFence"
    /\ deviceIdle' = TRUE
    /\ UNCHANGED <<envVars, shaderVars, histVars, dataVars, bindVars, code, selVars,
                   memVars, resVars, cmdVars, devVars, waitResults>>

\* the fence destroyed without waiting for the device to be idle
vkDestroyFence_BeforeIdle ==
    /\ Destroy("vkDeviceWaitIdle", "vkDestroyBuffer", "fence")
    /\ UNCHANGED <<envVars, shaderVars, histVars, dataVars, bindVars, code, selVars,
                   memVars, cmdVars, devVars, syncVars>>

vkDestroyFence ==
    /\ Destroy("vkDestroyFence", "vkDestroyBuffer", "fence")
    /\ UNCHANGED <<envVars, shaderVars, histVars, dataVars, bindVars, code, selVars,
                   memVars, cmdVars, devVars, syncVars>>

vkDestroyBuffer ==
    /\ Destroy("vkDestroyBuffer", "vkFreeMemory_pixelReadbackBufferMemory",
               "pixelReadbackBuffer")
    /\ UNCHANGED <<envVars, shaderVars, histVars, dataVars, bindVars, code, selVars,
                   memVars, cmdVars, devVars, syncVars>>

vkFreeMemory_pixelReadbackBufferMemory ==
    /\ Destroy("vkFreeMemory_pixelReadbackBufferMemory", "vkDestroyImageView",
               "pixelReadbackBufferMemory")
    /\ UNCHANGED <<envVars, shaderVars, histVars, dataVars, bindVars, code, selVars,
                   memVars, cmdVars, devVars, syncVars>>

vkDestroyImageView ==
    /\ Destroy("vkDestroyImageView", "vkDestroyImage", "imageView")
    /\ UNCHANGED <<envVars, shaderVars, histVars, dataVars, bindVars, code, selVars,
                   memVars, cmdVars, devVars, syncVars>>

vkDestroyImage ==
    /\ Destroy("vkDestroyImage", "vkFreeMemory_imageMemory", "image")
    /\ UNCHANGED <<envVars, shaderVars, histVars, dataVars, bindVars, code, selVars,
                   memVars, cmdVars, devVars, syncVars>>

\* the buffer's memory freed a second time in place of the image's
vkFreeMemory_imageMemory_WrongAllocation ==
    /\ Destroy("vkFreeMemory_imageMemory", "vkDestroyShaderModule",
               "pixelReadbackBufferMemory")
    /\ UNCHANGED <<envVars, shaderVars, histVars, dataVars, bindVars, code, selVars,
                   memVars, cmdVars, devVars, syncVars>>

vkFreeMemory_imageMemory ==
    /\ Destroy("vkFreeMemory_imageMemory", "vkDestroyShaderModule", "imageMemory")
    /\ UNCHANGED <<envVars, shaderVars, histVars, dataVars, bindVars, code, selVars,
                   memVars, cmdVars, devVars, syncVars>>

vkDestroyShaderModule ==
    /\ Destroy("vkDestroyShaderModule", "vkFreeCommandBuffers", "vertexShaderModule")
    /\ UNCHANGED <<envVars, shaderVars, histVars, dataVars, bindVars, code, selVars,
                   memVars, cmdVars, devVars, syncVars>>

vkFreeCommandBuffers ==
    /\ Destroy("vkFreeCommandBuffers", "vkDestroyCommandPool", "commandBuffer")
    /\ cbState' = "NONE"
    /\ UNCHANGED <<envVars, shaderVars, histVars, dataVars, bindVars, code, selVars,
                   memVars, recorded, devVars, syncVars>>

vkDestroyCommandPool ==
    /\ Destroy("vkDestroyCommandPool", "vkDestroyPipeline", "commandPool")
    /\ UNCHANGED <<envVars, shaderVars, histVars, dataVars, bindVars, code, selVars,
                   memVars, cmdVars, devVars, syncVars>>

vkDestroyPipeline ==
    /\ Destroy("vkDestroyPipeline", "vkDestroyPipelineLayout", "graphicsPipeline")
    /\ UNCHANGED <<envVars, shaderVars, histVars, dataVars, bindVars, code, selVars,
                   memVars, cmdVars, devVars, syncVars>>

vkDestroyPipelineLayout ==
    /\ Destroy("vkDestroyPipelineLayout", "vkDestroyFramebuffer", "pipelineLayout")
    /\ UNCHANGED <<envVars, shaderVars, histVars, dataVars, bindVars, code, selVars,
                   memVars, cmdVars, devVars, syncVars>>

vkDestroyFramebuffer ==
    /\ Destroy("vkDestroyFramebuffer", "vkDestroyRenderPass", "framebuffer")
    /\ UNCHANGED <<envVars, shaderVars, histVars, dataVars, bindVars, code, selVars,
                   memVars, cmdVars, devVars, syncVars>>

vkDestroyRenderPass ==
    /\ Destroy("vkDestroyRenderPass", "vkDestroyDevice", "renderPass")
    /\ UNCHANGED <<envVars, shaderVars, histVars, dataVars, bindVars, code, selVars,
                   memVars, cmdVars, devVars, syncVars>>


\* a teardown that destroys the instance while the device still exists
vkDestroyDevice_InstanceFirst ==
    /\ Destroy("vkDestroyDevice", "vkDestroyInstance", "instance")
    /\ UNCHANGED <<envVars, shaderVars, histVars, dataVars, bindVars, code, selVars,
                   memVars, cmdVars, devVars, syncVars>>

vkDestroyDevice ==
    /\ Destroy("vkDestroyDevice", "vkDestroyInstance", "device")
    /\ UNCHANGED <<envVars, shaderVars, histVars, dataVars, bindVars, code, selVars,
                   memVars, cmdVars, devVars, syncVars>>

vkDestroyInstance ==
    /\ Destroy("vkDestroyInstance", "EXIT_SUCCESS", "instance")
    /\ UNCHANGED <<envVars, shaderVars, histVars, dataVars, bindVars, code, selVars,
                   memVars, cmdVars, devVars, syncVars>>

(***************************************************************************)
(* The program and the device.                                             *)
(***************************************************************************)
DeviceContext ==
    \/ vkCreateInstance \/ vkEnumeratePhysicalDevices \/ SelectPhysicalDevice
    \/ vkCreateDevice

Resources ==
    \/ vkCreateImage \/ SelectImageMemoryType \/ vkAllocateMemory_imageMemory
    \/ vkBindImageMemory \/ vkCreateImageView \/ CheckPixelReadbackBufferSize
    \/ vkCreateBuffer \/ SelectBufferMemoryType
    \/ vkAllocateMemory_pixelReadbackBufferMemory \/ vkBindBufferMemory

GraphicsPipeline ==
    \/ vkCreateRenderPass \/ vkCreateFramebuffer \/ AccessVertexShader
    \/ ReadVertexShader \/ vkCreateShaderModule \/ free_vertexShaderCode
    \/ vkCreatePipelineLayout \/ vkCreateGraphicsPipelines

CommandBuffers ==
    \/ vkCreateCommandPool \/ vkAllocateCommandBuffers \/ vkBeginCommandBuffer
    \/ vkCmdBeginRenderPass \/ vkCmdBindPipeline \/ vkCmdDraw \/ vkCmdEndRenderPass
    \/ vkCmdPipelineBarrier \/ vkCmdCopyImageToBuffer \/ vkEndCommandBuffer
    \/ vkCreateFence \/ vkQueueSubmit \/ vkWaitForFences

PixelReadback ==
    \/ malloc_imageData \/ vkMapMemory \/ memcpy \/ vkUnmapMemory \/ malloc_depthData
    \/ free_imageData \/ WriteOutputFile \/ free_depthData

Cleanup ==
    \/ vkDeviceWaitIdle \/ vkDestroyFence \/ vkDestroyBuffer
    \/ vkFreeMemory_pixelReadbackBufferMemory \/ vkDestroyImageView \/ vkDestroyImage
    \/ vkFreeMemory_imageMemory \/ vkDestroyShaderModule \/ vkFreeCommandBuffers
    \/ vkDestroyCommandPool \/ vkDestroyPipeline \/ vkDestroyPipelineLayout
    \/ vkDestroyFramebuffer \/ vkDestroyRenderPass \/ vkDestroyDevice
    \/ vkDestroyInstance

DeviceProcess == DeviceExecute \/ DeviceComplete

Next ==
    \/ DeviceContext \/ Resources \/ GraphicsPipeline \/ CommandBuffers
    \/ PixelReadback \/ Cleanup \/ DeviceProcess

Spec == Init /\ [][Next]_vars

\* main is one thread that the operating system keeps running: whenever its next
\* call can return, it eventually does
HostProcess ==
    \/ DeviceContext \/ Resources \/ GraphicsPipeline \/ CommandBuffers
    \/ PixelReadback \/ Cleanup

\* the runs with each format the image can be given, on one machine
InitReadback ==
    \E f \in Formats :
       Start(Platform(<<IntegratedGpu, Llvmpipe>>,
                      Memory(<<{"DEVICE_LOCAL"}, {"HOST_VISIBLE", "HOST_COHERENT"}>>, 1, 3),
                      Requirements(2048, 64)),
             f, "vkCreateInstance")

SpecReadback == InitReadback /\ [][Next]_vars

\* the runs up to the logical device on machines with up to one device more than
\* physicalDevices[] has room for
InitEnumeration ==
    \E d \in SeqsUpTo({Llvmpipe, IntegratedGpu}, MAX_PHYSICAL_DEVICE_COUNT + 1) :
       Start(Platform(d, Memory(<<{"DEVICE_LOCAL"}, {"HOST_VISIBLE", "HOST_COHERENT"}>>, 1, 3),
                      Requirements(2048, 64)),
             "VK_FORMAT_D24_UNORM_S8_UINT", "vkCreateInstance")

SpecEnumeration == InitEnumeration /\ [][DeviceContext]_vars

\* the runs up to the pipeline with a shader file of each size, on one machine
InitShader ==
    \E n \in 0..((4 * MaxShaderWords) + 3) :
       StartWith(Platform(<<IntegratedGpu, Llvmpipe>>,
                          Memory(<<{"DEVICE_LOCAL"}, {"HOST_VISIBLE", "HOST_COHERENT"}>>, 1, 3),
                          Requirements(2048, 64)),
                 "VK_FORMAT_D24_UNORM_S8_UINT", n, "vkCreateInstance")

SpecShader == InitShader /\ [][DeviceContext \/ Resources \/ GraphicsPipeline]_vars

\* the runs on a machine with a discrete card
InitFair ==
    \E d \in DeviceCatalog :
       Start(Platform(d, Memory(<<{"DEVICE_LOCAL"}, {"HOST_VISIBLE", "HOST_COHERENT"}>>, 1, 3),
                      Requirements(2048, 64)),
             "VK_FORMAT_D24_UNORM_S8_UINT", "vkCreateInstance")

SpecFair == InitFair /\ [][Next]_vars /\ WF_vars(HostProcess)

(***************************************************************************)
(* Device selection on every platform within the bounds.                   *)
(***************************************************************************)
\* the queue families of a device that is no GPU are never queried: one such
\* device, with a family that has both flags, stands for all of them
BoundedDevices ==
    {Device(t, f) : t \in {"DISCRETE_GPU", "INTEGRATED_GPU"},
                    f \in SeqsUpTo(QueueFlagSets, MaxQueueFamilies)}
        \cup {Llvmpipe}

DiscreteCardMemory ==
    Memory(<<{"DEVICE_LOCAL"}, {"HOST_VISIBLE", "HOST_COHERENT"}>>, 1, 3)

InitDeviceContext ==
    \E d \in SeqsUpTo(BoundedDevices, MaxDevices) :
        Start(Platform(d, DiscreteCardMemory, Requirements(2048, 64)),
              "VK_FORMAT_D24_UNORM_S8_UINT", "vkCreateInstance")

SpecDeviceContext == InitDeviceContext /\ [][DeviceContext]_vars

(***************************************************************************)
(* Memory-type selection on every memory table within the bounds.          *)
(***************************************************************************)
BoundedMemoryPropertySets ==
    { {}, {"DEVICE_LOCAL"}, {"HOST_VISIBLE"}, {"HOST_VISIBLE", "HOST_COHERENT"},
      {"DEVICE_LOCAL", "HOST_VISIBLE", "HOST_COHERENT"} }

BoundedMemories ==
    {Memory(t, i, b) : t \in SeqsUpTo(BoundedMemoryPropertySets, MaxMemoryTypes),
                       i \in 0..(Pow2(MaxMemoryTypes) - 1),
                       b \in 0..(Pow2(MaxMemoryTypes) - 1)}

InitMemory ==
    \E m \in BoundedMemories :
        Start(Platform(<<IntegratedGpu, Llvmpipe>>, m, Requirements(2048, 64)),
              "VK_FORMAT_D24_UNORM_S8_UINT", "vkCreateInstance")

SpecMemory == InitMemory /\ [][DeviceContext \/ Resources]_vars

(***************************************************************************)
(* The image and the buffer for every format within the bounds: the format *)
(* is a field of imageCreateInfo, and formatSize is applied to it.         *)
(***************************************************************************)
InitFormat ==
    \E p \in Platforms, f \in Formats : Start(p, f, "vkCreateInstance")

SpecFormat == InitFormat /\ [][DeviceContext \/ Resources]_vars

(***************************************************************************)
(* Properties.                                                             *)
(***************************************************************************)
IsPrefix(s, t) == Len(s) <= Len(t) /\ s = SubSeq(t, 1, Len(s))

\* the position of x in the sequence s, 0 when it is not there
Position(s, x) == IF \E i \in 1..Len(s) : s[i] = x
                  THEN CHOOSE i \in 1..Len(s) : s[i] = x
                  ELSE 0

GraphicsAndTransfer(device, family) ==
    /\ family < Len(device.queueFamilies)
    /\ {"GRAPHICS", "TRANSFER"} \subseteq device.queueFamilies[family + 1]

DiscreteOrIntegrated(device) ==
    device.deviceType = "DISCRETE_GPU" \/ device.deviceType = "INTEGRATED_GPU"

\* C1: when selection succeeds, the selected device is a discrete or integrated
\* GPU and the selected family has both the graphics and the transfer flag; no
\* lower-indexed family of that device has both, and no earlier device is a GPU
\* with such a family.
C1_FirstSuitablePair ==
    pc = "vkCreateDevice" =>
        /\ physicalDeviceIndex < physicalDeviceCount
        /\ DiscreteOrIntegrated(physicalDevices[physicalDeviceIndex + 1])
        /\ GraphicsAndTransfer(physicalDevices[physicalDeviceIndex + 1], queueFamilyIndex)
        /\ \A q \in 0..(queueFamilyIndex - 1) :
              ~GraphicsAndTransfer(physicalDevices[physicalDeviceIndex + 1], q)
        /\ \A d \in 0..(physicalDeviceIndex - 1) :
              ~(/\ DiscreteOrIntegrated(physicalDevices[d + 1])
                /\ \E q \in 0..(MAX_PHYSICAL_DEVICE_QUEUE_FAMILIES - 1) :
                      GraphicsAndTransfer(physicalDevices[d + 1], q))

\* a later device and a later family were selected, past a GPU without a suitable
\* family
C1_Witness ==
    /\ pc = "vkCreateDevice"
    /\ physicalDeviceIndex = 1
    /\ queueFamilyIndex = 1
    /\ DiscreteOrIntegrated(physicalDevices[1])

Qualifies(memory, bits, required, i) ==
    /\ (bits \div Pow2(i)) % 2 = 1
    /\ required \subseteq memory[i + 1]

FirstFit(memory, bits, required, selected) ==
    /\ selected < Len(memory)
    /\ Qualifies(memory, bits, required, selected)
    /\ \A i \in 0..(selected - 1) : ~Qualifies(memory, bits, required, i)

\* C2: the memory type selected for the image is the smallest index whose bit is
\* set in the image's memoryTypeBits and whose properties include DEVICE_LOCAL;
\* the one selected for the readback buffer is the smallest index whose bit is
\* set in the buffer's memoryTypeBits and whose properties include HOST_VISIBLE
\* and HOST_COHERENT.
C2_FirstFitMemoryType ==
    /\ pc = "vkAllocateMemory_imageMemory" =>
          FirstFit(platform.memory.memoryTypes, platform.memory.imageTypeBits,
                   {"DEVICE_LOCAL"}, memoryTypeIndex)
    /\ pc = "vkAllocateMemory_pixelReadbackBufferMemory" =>
          FirstFit(platform.memory.memoryTypes, platform.memory.bufferTypeBits,
                   {"HOST_VISIBLE", "HOST_COHERENT"}, memoryTypeIndex)

\* the buffer's type is not the first of the table, and the first type has one of
\* the two required properties and its bit set
C2_Witness ==
    /\ pc = "vkAllocateMemory_pixelReadbackBufferMemory"
    /\ memoryTypeIndex = 1
    /\ platform.memory.bufferTypeBits = 3
    /\ platform.memory.memoryTypes[1] = {"HOST_VISIBLE"}

ExpectedRecording ==
    << "vkBeginCommandBuffer", "vkCmdBeginRenderPass", "vkCmdBindPipeline", "vkCmdDraw",
       "vkCmdEndRenderPass", "vkCmdPipelineBarrier", "vkCmdCopyImageToBuffer",
       "vkEndCommandBuffer" >>

RecordedCalls == [i \in 1..Len(recorded) |-> recorded[i].op]

\* C3: the recording calls are made in the order begin, begin render pass (clear
\* depth 1.0, stencil 0), bind pipeline, draw (3 vertices, 1 instance), end render
\* pass, barrier, copy, end; once the buffer is executable or pending all eight
\* were made, each once, and none follows the end.
C3_RecordingOrder ==
    /\ IsPrefix(RecordedCalls, ExpectedRecording)
    /\ cbState \in {"EXECUTABLE", "PENDING"} => RecordedCalls = ExpectedRecording
    /\ \A i \in 1..Len(recorded) :
          /\ recorded[i].op = "vkCmdBeginRenderPass" =>
                recorded[i].clearValue.depth = 1 /\ recorded[i].clearValue.stencil = 0
          /\ recorded[i].op = "vkCmdDraw" =>
                recorded[i].vertexCount = 3 /\ recorded[i].instanceCount = 1

C3_Witness == cbState = "PENDING" /\ Len(recorded) = 8

NextCommandIs(op) ==
    /\ cbState = "PENDING"
    /\ devIdx < Len(SubmittedCommands)
    /\ SubmittedCommands[devIdx + 1].op = op

LayoutSequence ==
    <<"UNDEFINED", "DEPTH_STENCIL_ATTACHMENT_OPTIMAL", "TRANSFER_SRC_OPTIMAL">>

\* C4: the layouts the image goes through are UNDEFINED, then
\* DEPTH_STENCIL_ATTACHMENT_OPTIMAL, then TRANSFER_SRC_OPTIMAL, and no other
\* change happens; once the submission has completed both changes have happened;
\* when the barrier is about to execute, the image is in the barrier's old layout.
C4_LayoutTransitions ==
    /\ IsPrefix(layoutHistory, LayoutSequence)
    /\ fence = "SIGNALED" => layoutHistory = LayoutSequence
    /\ NextCommandIs("vkCmdPipelineBarrier") =>
          SubmittedCommands[devIdx + 1].barrier.oldLayout = imageLayout

C4_Witness == pc = "EXIT_SUCCESS" /\ Len(layoutHistory) = 3

\* C5: when the copy command is about to execute, the image is in the layout the
\* copy command names, and that layout is TRANSFER_SRC_OPTIMAL.
C5_CopyInTransferSrcLayout ==
    NextCommandIs("vkCmdCopyImageToBuffer") =>
        /\ imageLayout = SubmittedCommands[devIdx + 1].srcImageLayout
        /\ imageLayout = "TRANSFER_SRC_OPTIMAL"

C5_Witness == NextCommandIs("vkCmdCopyImageToBuffer")

\* C6: whenever the host is about to map, copy out of, or unmap the readback
\* memory, the last fence wait returned VK_SUCCESS, the fence is signaled and the
\* device has executed every command of the submission.
C6_ReadbackAfterFence ==
    pc \in {"vkMapMemory", "memcpy", "vkUnmapMemory"} =>
        /\ waitResults # <<>>
        /\ waitResults[Len(waitResults)] = "VK_SUCCESS"
        /\ fence = "SIGNALED"
        /\ cbState # "PENDING"
        /\ devIdx = Len(SubmittedCommands)

C6_Witness == pc = "memcpy" /\ Len(waitResults) > 1

\* C7: after a wait has returned an error status other than timeout, no further
\* wait is issued and the program has exited with failure.
C7_AbortOnWaitError ==
    \A i \in 1..Len(waitResults) :
        waitResults[i] \notin {"VK_SUCCESS", "VK_TIMEOUT"} =>
            i = Len(waitResults) /\ pc = "EXIT_FAILURE"

\* C8: while the program is in the wait loop no wait has returned success; once it
\* has left the loop, the number of waits is one more than the number that had
\* returned when the fence was signaled, and only the last returned success.
C8_WaitCount ==
    /\ pc = "vkWaitForFences" =>
          \A i \in 1..Len(waitResults) : waitResults[i] # "VK_SUCCESS"
    /\ (pc # "vkWaitForFences" /\ waitResults # <<>>) =>
          /\ fence = "SIGNALED"
          /\ Len(waitResults) = waitsBeforeSignal + 1
          /\ waitResults[Len(waitResults)] = "VK_SUCCESS"
          /\ \A i \in 1..(Len(waitResults) - 1) : waitResults[i] # "VK_SUCCESS"

\* the fence was signaled after two timeouts, and the loop was left on the third wait
C8_Witness ==
    /\ pc = "malloc_imageData"
    /\ waitResults = <<"VK_TIMEOUT", "VK_TIMEOUT", "VK_SUCCESS">>
    /\ waitsBeforeSignal = 2

HostArrays == {"vertexShaderCode", "imageData", "depthData"}

\* C9 as stated: nothing at all is destroyed or freed before vkDeviceWaitIdle has
\* returned.
C9_NothingReleasedBeforeIdle == destroyed # <<>> => deviceIdle

\* C9 as amended: no Vulkan object and no device memory is destroyed or freed
\* before vkDeviceWaitIdle has returned, the command buffer is not pending once it
\* has, and no release of any kind happens while the command buffer is pending.
C9_DeviceObjectsReleasedAfterIdle ==
    /\ [](\A i \in 1..Len(destroyed) : destroyed[i] \notin HostArrays => deviceIdle)
    /\ [](deviceIdle => cbState # "PENDING")
    /\ [][destroyed' # destroyed => (cbState # "PENDING" /\ cbState' # "PENDING")]_vars

C9_Witness == deviceIdle /\ Position(destroyed, "fence") = 4

\* C10: at the successful exit, any two Vulkan objects were destroyed in the
\* reverse of the order they were created in.
C10_ReverseCreationOrder ==
    pc = "EXIT_SUCCESS" =>
        \A i, j \in 1..Len(created) :
            (i < j /\ created[i] \notin HostArrays /\ created[j] \notin HostArrays) =>
                Position(destroyed, created[j]) < Position(destroyed, created[i])

Range(s) == {s[i] : i \in 1..Len(s)}

NoDuplicates(s) == \A i, j \in 1..Len(s) : s[i] = s[j] => i = j

AllResources ==
    { "instance", "device", "image", "imageMemory", "imageView", "pixelReadbackBuffer",
      "pixelReadbackBufferMemory", "renderPass", "framebuffer", "vertexShaderCode",
      "vertexShaderModule", "pipelineLayout", "graphicsPipeline", "commandPool",
      "commandBuffer", "fence", "imageData", "depthData" }

\* C11: no resource is created twice or released twice, and only a resource that
\* was created is released; at the successful exit every resource of the program
\* has been created and every created resource has been released.
C11_CreatedOnceReleasedOnce ==
    /\ NoDuplicates(created)
    /\ NoDuplicates(destroyed)
    /\ Range(destroyed) \subseteq Range(created)
    /\ pc = "EXIT_SUCCESS" =>
          /\ Range(created) = AllResources
          /\ Range(destroyed) = Range(created)

C11_Witness == pc = "EXIT_SUCCESS" /\ Len(created) = 18 /\ Len(destroyed) = 18

\* C12: with a format whose size formatSize does not know, no device memory is
\* ever allocated and no image, view or buffer is ever created.
C12_UnknownFormatBeforeAllocation ==
    formatSize(imageFormat) = 0 =>
        /\ allocated = <<>>
        /\ Range(created) \subseteq {"instance", "device"}

\* C13: formatSize is 2 for D16_UNORM, 3 for D16_UNORM_S8_UINT, 4 for
\* D24_UNORM_S8_UINT, 4 for D32_SFLOAT, 5 for D32_SFLOAT_S8_UINT and 0 for every
\* other format; the buffer is created only when it is not 0.
C13_FormatSizes ==
    /\ imageFormat = "VK_FORMAT_D16_UNORM" => formatSize(imageFormat) = 2
    /\ imageFormat = "VK_FORMAT_D16_UNORM_S8_UINT" => formatSize(imageFormat) = 3
    /\ imageFormat = "VK_FORMAT_D24_UNORM_S8_UINT" => formatSize(imageFormat) = 4
    /\ imageFormat = "VK_FORMAT_D32_SFLOAT" => formatSize(imageFormat) = 4
    /\ imageFormat = "VK_FORMAT_D32_SFLOAT_S8_UINT" => formatSize(imageFormat) = 5
    /\ imageFormat \notin DepthFormats => formatSize(imageFormat) = 0
    /\ "pixelReadbackBuffer" \in Range(created) => imageFormat \in DepthFormats

\* the size of a format with a stencil byte has been used for the buffer
C13_Witness ==
    /\ imageFormat = "VK_FORMAT_D32_SFLOAT_S8_UINT"
    /\ "pixelReadbackBuffer" \in Range(created)
    /\ pixelReadbackBufferSize = 5 * IMAGE_WIDTH * IMAGE_HEIGHT

\* C14: every allocation is at least as large as the size the memory requirements
\* of its resource report, and every binding is at offset 0.
C14_AllocationCoversRequirements ==
    /\ \A i \in 1..Len(allocated) :
          /\ allocated[i].memory = "imageMemory" =>
                allocated[i].allocationSize >= imageMemoryRequirements.size
          /\ allocated[i].memory = "pixelReadbackBufferMemory" =>
                allocated[i].allocationSize >= pixelReadbackBufferMemoryRequirements.size
    /\ \A i \in 1..Len(bound) : bound[i].memoryOffset = 0

Failed(call) ==
    \E i \in 1..Len(returned) : returned[i].call = call /\ returned[i].result # VK_SUCCESS

\* C15: once vkBeginCommandBuffer has failed, the program has exited with failure
\* and no recording call was made after it; once vkEndCommandBuffer has failed, the
\* program has exited with failure and the buffer is never submitted.
C15_RecordingFailureFatal ==
    /\ Failed("vkBeginCommandBuffer") =>
          /\ pc = "EXIT_FAILURE"
          /\ returned[Len(returned)].call = "vkBeginCommandBuffer"
          /\ RecordedCalls = <<"vkBeginCommandBuffer">>
    /\ Failed("vkEndCommandBuffer") =>
          /\ pc = "EXIT_FAILURE"
          /\ returned[Len(returned)].call = "vkEndCommandBuffer"
          /\ cbState # "PENDING"

\* the calls whose failure the program answers with return EXIT_FAILURE
FatalCalls ==
    { "vkCreateInstance", "vkCreateDevice", "vkCreateImage", "vkAllocateMemory_imageMemory",
      "vkBindImageMemory", "vkCreateImageView", "vkCreateBuffer",
      "vkAllocateMemory_pixelReadbackBufferMemory", "vkBindBufferMemory",
      "vkCreateRenderPass", "vkCreateFramebuffer", "vkCreateShaderModule",
      "vkCreatePipelineLayout", "vkCreateGraphicsPipelines", "vkCreateCommandPool",
      "vkAllocateCommandBuffers", "vkCreateFence", "vkQueueSubmit" }

\* C16: a creation, allocation, bind or submit call that did not return
\* VK_SUCCESS is the last call the program made: the program has exited with
\* failure, nothing was submitted, no wait was made, nothing was read back.
C16_FailureEndsRun ==
    \A i \in 1..Len(returned) :
        (returned[i].call \in FatalCalls /\ returned[i].result # VK_SUCCESS) =>
            /\ i = Len(returned)
            /\ pc = "EXIT_FAILURE"
            /\ cbState # "PENDING"
            /\ devIdx = 0
            /\ waitResults = <<>>
            /\ "imageData" \notin Range(created)

\* the submission failed, after everything before it had succeeded
C16_Witness ==
    /\ pc = "EXIT_FAILURE"
    /\ Failed("vkQueueSubmit")
    /\ cbState = "EXECUTABLE"
    /\ fence = "UNSIGNALED"

\* vkEnumeratePhysicalDevices has returned VK_SUCCESS or VK_INCOMPLETE
Enumerated ==
    \E i \in 1..Len(returned) :
        /\ returned[i].call = "vkEnumeratePhysicalDevices"
        /\ returned[i].result \in {VK_SUCCESS, VK_INCOMPLETE}

\* C17: once enumeration has reported zero devices, the program has exited with
\* failure, the enumeration was its last call and no logical device exists; the
\* selection loop is entered only with at least one device.
C17_NoDeviceFound ==
    /\ (Enumerated /\ physicalDeviceCount = 0) =>
          /\ pc = "EXIT_FAILURE"
          /\ returned[Len(returned)].call = "vkEnumeratePhysicalDevices"
          /\ "device" \notin Range(created)
    /\ pc = "SelectPhysicalDevice" => physicalDeviceCount > 0

C17_Witness == Enumerated /\ physicalDeviceCount = 0 /\ pc = "EXIT_FAILURE"

\* the pair (d, q) of the enumerated devices passes both filters
Suitable(d, q) ==
    /\ d < physicalDeviceCount
    /\ q < MAX_PHYSICAL_DEVICE_QUEUE_FAMILIES
    /\ DiscreteOrIntegrated(physicalDevices[d + 1])
    /\ GraphicsAndTransfer(physicalDevices[d + 1], q)

NoSuitablePair ==
    \A d \in 0..(physicalDeviceCount - 1) :
        \A q \in 0..(MAX_PHYSICAL_DEVICE_QUEUE_FAMILIES - 1) : ~Suitable(d, q)

\* C18: when no enumerated pair passes both filters, the program never gets past
\* selection: it exits with failure and no logical device is created; a logical
\* device is created only for a selected pair that passes both filters.
C18_NoSuitableDevice ==
    /\ (Enumerated /\ NoSuitablePair) =>
          /\ pc \in {"SelectPhysicalDevice", "EXIT_FAILURE"}
          /\ "device" \notin Range(created)
    /\ (pc = "vkCreateDevice" \/ "device" \in Range(created)) =>
          Suitable(physicalDeviceIndex, queueFamilyIndex)

\* two devices were enumerated, the first a GPU, and none has a suitable family
C18_Witness ==
    /\ Enumerated
    /\ physicalDeviceCount = 2
    /\ DiscreteOrIntegrated(physicalDevices[1])
    /\ NoSuitablePair
    /\ pc = "EXIT_FAILURE"

NoneQualifies(bits, required) ==
    \A i \in 0..(Len(platform.memory.memoryTypes) - 1) :
        ~Qualifies(platform.memory.memoryTypes, bits, required, i)

\* C19: every allocation was made with a memory type index that qualifies for its
\* resource; when no index qualifies for the image, the program exits with failure
\* at the selection and never allocates the image's memory, and likewise for the
\* buffer.
C19_NoCompatibleMemoryType ==
    /\ \A i \in 1..Len(allocated) :
          /\ allocated[i].memoryTypeIndex < Len(platform.memory.memoryTypes)
          /\ allocated[i].memory = "imageMemory" =>
                Qualifies(platform.memory.memoryTypes, platform.memory.imageTypeBits,
                          {"DEVICE_LOCAL"}, allocated[i].memoryTypeIndex)
          /\ allocated[i].memory = "pixelReadbackBufferMemory" =>
                Qualifies(platform.memory.memoryTypes, platform.memory.bufferTypeBits,
                          {"HOST_VISIBLE", "HOST_COHERENT"}, allocated[i].memoryTypeIndex)
    /\ NoneQualifies(platform.memory.imageTypeBits, {"DEVICE_LOCAL"}) =>
          /\ "imageMemory" \notin Range(created)
          /\ "image" \in Range(created) => pc \in {"SelectImageMemoryType", "EXIT_FAILURE"}
    /\ NoneQualifies(platform.memory.bufferTypeBits, {"HOST_VISIBLE", "HOST_COHERENT"}) =>
          /\ "pixelReadbackBufferMemory" \notin Range(created)
          /\ "pixelReadbackBuffer" \in Range(created) =>
                pc \in {"SelectBufferMemoryType", "EXIT_FAILURE"}

\* the image has its memory, and no type qualifies for the buffer although one is
\* host-visible and compatible
C19_Witness ==
    /\ pc = "EXIT_FAILURE"
    /\ "pixelReadbackBuffer" \in Range(created)
    /\ Len(allocated) = 1
    /\ NoneQualifies(platform.memory.bufferTypeBits, {"HOST_VISIBLE", "HOST_COHERENT"})
    /\ \E i \in 0..(Len(platform.memory.memoryTypes) - 1) :
          Qualifies(platform.memory.memoryTypes, platform.memory.bufferTypeBits,
                    {"HOST_VISIBLE"}, i)

\* C20 as stated: at a failure exit nothing at all has been destroyed or freed.
C20_NothingReleasedOnAbort == pc = "EXIT_FAILURE" => destroyed = <<>>

\* C20 as amended: at a failure exit no Vulkan object and no device memory has
\* been destroyed or freed, so every one that was created is still live; the only
\* thing that can have been released is the array of the shader code, freed
\* after the shader module was created from it.
C20_NoVulkanObjectReleasedOnAbort ==
    pc = "EXIT_FAILURE" =>
        /\ \A r \in Range(created) \ HostArrays : r \notin Range(destroyed)
        /\ Range(destroyed) \subseteq {"vertexShaderCode"}
        /\ destroyed # <<>> => "vertexShaderModule" \in Range(created)

\* the submission failed: fifteen Vulkan objects are live at the exit
C20_Witness ==
    /\ pc = "EXIT_FAILURE"
    /\ Failed("vkQueueSubmit")
    /\ destroyed = <<"vertexShaderCode">>
    /\ Len(created) = 16

\* the low 24 bits of a texel, as a number
Low24(texel) == ((texel.hi % 256) * 65536) + texel.lo

\* C21: every decoded value is the low 24 bits of its texel divided by 0xFFFFFF,
\* and 0 when those bits are 0xFFFFFF; in the file a texel whose low 24 bits are
\* 0x000000 or 0xFFFFFF reads 0.0000 and one whose low 24 bits are 0x7FFFFF reads
\* 0.5000 within 0.0001.
C21_DepthDecode ==
    /\ depthData # <<>> =>
          \A i \in 1..(IMAGE_WIDTH * IMAGE_HEIGHT) :
              LET field == Low24(imageData.words[i])
              IN  /\ field = 16777215 => depthData[i].num = 0
                  /\ field # 16777215 =>
                        depthData[i].num = field /\ depthData[i].den = 16777215
    /\ outputFile # <<>> =>
          \A i \in 0..(IMAGE_HEIGHT - 1), j \in 0..(IMAGE_WIDTH - 1) :
              LET field == Low24(imageData.words[(IMAGE_WIDTH * i) + j + 1])
                  value == outputFile[i + 1][j + 1]
              IN  /\ field = 0 => value = 0
                  /\ field = 16777215 => value = 0
                  /\ field = 8388607 => (value >= 4999 /\ value <= 5001)

\* the file was written from a buffer that holds the texels 0x00000000,
\* 0x00FFFFFF, 0x007FFFFF, 0xFF7FFFFF, ... in this order
C21_Witness ==
    /\ outputFile # <<>>
    /\ ~Failed("vkMapMemory")
    /\ bufferData = Filled(1600, "special")
    /\ outputFile[1][3] = 5000
    /\ outputFile[1][4] = 5000
    /\ outputFile[1][2] = 0

C23_CommandBufferStateMachine ==
    [][ /\ (pc = "vkBeginCommandBuffer" /\ recorded' # recorded) => cbState = "INITIAL"
        /\ (recorded' # recorded /\ pc \notin {"vkBeginCommandBuffer", "vkEndCommandBuffer"})
              => cbState = "RECORDING"
        /\ submissions' # submissions
              => /\ cbState = "EXECUTABLE"
                 /\ \E i \in 1..Len(returned) :
                       returned[i] = Returned("vkEndCommandBuffer", VK_SUCCESS) ]_vars

(***************************************************************************)
(* One queue, one command buffer, one fence, one submission.               *)
(***************************************************************************)
\* how often x occurs in the sequence s
Count(s, x) == Cardinality({i \in 1..Len(s) : s[i] = x})

\* main has got past the wait loop
ReadbackReached == pc = "malloc_imageData" \/ "imageData" \in Range(created)

\* C25: a run has at most one queue, one command buffer, one fence and one
\* submission (of that one command buffer), and the device executes the recorded
\* commands at most once: exactly once when the run reaches the readback
C25_OneOfEach ==
    /\ Len(queues) <= 1
    /\ Count(created, "commandBuffer") <= 1
    /\ Count(created, "fence") <= 1
    /\ Len(submissions) <= 1
    /\ \A i \in 1..Len(submissions) :
          submissions[i].commandBufferCount = 1 /\ submissions[i].queue = 1
    /\ executions <= 1
    /\ devIdx <= Len(SubmittedCommands)
    /\ executions = 1 => Len(submissions) = 1 /\ devIdx = Len(SubmittedCommands)
    /\ ReadbackReached => executions = 1

C25_Witness ==
    /\ pc = "memcpy"
    /\ Len(queues) = 1
    /\ Len(submissions) = 1
    /\ executions = 1
    /\ devIdx = 6

(***************************************************************************)
(* The fence.                                                              *)
(***************************************************************************)
\* C26: the fence is unsignaled when created and when handed to vkQueueSubmit, it
\* becomes signaled once, when the device has completed the submitted command
\* buffer, it is never reset, and the host waits on it only after the submission
C26_FenceLifecycle ==
    /\ IsPrefix(fenceHistory, <<"UNSIGNALED", "SIGNALED">>)
    /\ "fence" \in Range(created) <=> fenceHistory # <<>>
    /\ \A i \in 1..Len(submissions) : submissions[i].fence = "UNSIGNALED"
    /\ fence = "SIGNALED" <=> Len(fenceHistory) = 2
    /\ fence = "SIGNALED"
          => /\ Len(submissions) = 1
             /\ executions = 1
             /\ devIdx = Len(SubmittedCommands)
    /\ waitResults # <<>> => Len(submissions) = 1

C26_Witness ==
    /\ fenceHistory = <<"UNSIGNALED", "SIGNALED">>
    /\ waitResults = <<VK_TIMEOUT, VK_SUCCESS>>
    /\ waitsBeforeSignal = 1
    /\ pc = "EXIT_SUCCESS"

(***************************************************************************)
(* Termination.                                                            *)
(***************************************************************************)
\* main has returned EXIT_SUCCESS, out.dat holds all its lines and everything
\* that was created has been released
FinishedSuccessfully ==
    /\ pc = "EXIT_SUCCESS"
    /\ Len(outputFile) = IMAGE_HEIGHT
    /\ Range(created) = Range(destroyed)
    /\ "instance" \in Range(destroyed)

\* C27: once every step up to the submission has succeeded and the device has
\* signaled the fence, the run ends in the successful exit with the output written
\* and the teardown finished: main stops nowhere else
C27_Termination ==
    fence = "SIGNALED" => /\ pc \notin {"SIGSEGV", "EXIT_FAILURE"}
                          /\ pc = "EXIT_SUCCESS" => FinishedSuccessfully

\* what remains of it when vkMapMemory, whose result main does not look at, is taken
\* to succeed: after the signal main eventually returns EXIT_SUCCESS with the
\* output written and the teardown finished, and main leaves the wait loop only
\* when the fence is signaled, after however many timeouts and errors
TerminatesUnlessMapFails ==
    /\ (fence = "SIGNALED") ~> (FinishedSuccessfully \/ Failed("vkMapMemory"))
    /\ [][pc = "vkWaitForFences" /\ pc' # pc
             => fence = "SIGNALED" /\ pc' = "malloc_imageData"]_vars
    /\ [][FinishedSuccessfully => FinishedSuccessfully']_vars

(***************************************************************************)
(* The readback buffer's size.                                             *)
(***************************************************************************)
\* the create info a resource was created with
CreateInfoOf(resource) ==
    {createInfos[i] : i \in {j \in 1..Len(createInfos) : createInfos[j].resource = resource}}

\* C28: the readback buffer's size is formatSize(format) * IMAGE_WIDTH * IMAGE_HEIGHT
\* for the format the image was created with, and the copy out of the mapped memory
\* is of exactly that many bytes, into an array of that many bytes
C28_BufferSizeFromImageFormat ==
    /\ \A image \in CreateInfoOf("image"), buffer \in CreateInfoOf("pixelReadbackBuffer") :
          /\ image.format = imageFormat
          /\ buffer.size = formatSize(image.format) * IMAGE_WIDTH * IMAGE_HEIGHT
          /\ buffer.size > 0
    /\ copied # 0 \/ pc = "vkUnmapMemory"
          => \A buffer \in CreateInfoOf("pixelReadbackBuffer") :
                /\ copied = buffer.size
                /\ imageData.size = buffer.size
                /\ 4 * Len(imageData.words) = buffer.size

C28_Witness ==
    /\ pc = "vkUnmapMemory"
    /\ imageFormat = "VK_FORMAT_D16_UNORM"
    /\ CreateInfoOf("pixelReadbackBuffer") = {[resource |-> "pixelReadbackBuffer", size |-> 800]}
    /\ copied = 800

(***************************************************************************)
(* Memory blocks and the resources they back.                              *)
(***************************************************************************)
\* the bindings made of a resource, and those made to a memory block
BindingsOf(resource) == {i \in 1..Len(bound) : bound[i].resource = resource}

BindingsTo(memory) == {i \in 1..Len(bound) : bound[i].memory = memory}

\* C29: a memory block backs one resource only: the image and the readback buffer
\* are bound to two different blocks, each one allocated by the program, no block has
\* two resources bound to it, and each resource is bound once
C29_OneResourcePerAllocation ==
    /\ \A i, j \in 1..Len(allocated) : allocated[i].memory = allocated[j].memory => i = j
    /\ \A i \in 1..Len(bound) :
          /\ \E j \in 1..Len(allocated) : allocated[j].memory = bound[i].memory
          /\ Cardinality(BindingsTo(bound[i].memory)) = 1
          /\ Cardinality(BindingsOf(bound[i].resource)) = 1
          /\ bound[i].resource \in {"image", "pixelReadbackBuffer"}
    /\ "imageView" \in Range(created) => Cardinality(BindingsOf("image")) = 1
    /\ "renderPass" \in Range(created) => Cardinality(BindingsOf("pixelReadbackBuffer")) = 1
    /\ \A i \in BindingsOf("image"), j \in BindingsOf("pixelReadbackBuffer") :
          bound[i].memory # bound[j].memory

C29_Witness ==
    /\ pc = "EXIT_SUCCESS"
    /\ bound = << Binding("image", "imageMemory", 0),
                  Binding("pixelReadbackBuffer", "pixelReadbackBufferMemory", 0) >>
    /\ Len(allocated) = 2

(***************************************************************************)
(* Children before parents.                                                *)
(***************************************************************************)
\* what is created from the logical device
DeviceLevelObjects ==
    { "fence", "pixelReadbackBuffer", "pixelReadbackBufferMemory", "imageMemory",
      "imageView", "image", "vertexShaderModule", "commandPool", "graphicsPipeline",
      "pipelineLayout", "framebuffer", "renderPass" }

\* child, if it was created, has been released by the time parent is, and earlier
ReleasedBefore(child, parent) ==
    (parent \in Range(destroyed) /\ child \in Range(created))
       => /\ child \in Range(destroyed)
          /\ Position(destroyed, child) < Position(destroyed, parent)

\* C30: an object is released before the object it was created from: the command
\* buffer before its pool, every object created from the device before the device,
\* and the device before the instance
C30_ChildrenBeforeParents ==
    /\ ReleasedBefore("commandBuffer", "commandPool")
    /\ \A object \in DeviceLevelObjects : ReleasedBefore(object, "device")
    /\ ReleasedBefore("device", "instance")

C30_Witness ==
    /\ pc = "EXIT_SUCCESS"
    /\ Len(destroyed) = 18
    /\ destroyed[Len(destroyed) - 1] = "device"
    /\ destroyed[Len(destroyed)] = "instance"
    /\ Position(destroyed, "commandBuffer") + 1 = Position(destroyed, "commandPool")

(***************************************************************************)
(* The decode loop's reads.                                                *)
(***************************************************************************)
\* C32: for every format with a non-zero formatSize, the decode loop reads
\* IMAGE_WIDTH * IMAGE_HEIGHT words of four bytes from imageData and all of them lie
\* inside the array, which has the size of the readback buffer
C32_DecodeReadsInsideArray ==
    /\ pc = "malloc_depthData"
          => /\ formatSize(imageFormat) # 0
             /\ imageData.size = formatSize(imageFormat) * IMAGE_WIDTH * IMAGE_HEIGHT
             /\ 4 * imagePixelCount <= imageData.size
    /\ "depthData" \in Range(created) => Len(depthData) = imagePixelCount

(***************************************************************************)
(* The shader code's buffer.                                               *)
(***************************************************************************)
\* C33: whatever the size of the shader file, the buffer allocated for the shader
\* code is at least as large as the file, and fread writes no byte past its end
C33_ShaderBufferHoldsFile ==
    "vertexShaderCode" \in Range(created)
       => /\ vertexShaderCodeSize = vertexShaderFileSize
          /\ vertexShaderCode.allocated >= vertexShaderCodeSize
          /\ vertexShaderCode.written <= vertexShaderCode.allocated

(***************************************************************************)
(* The unspecified byte of a texel.                                        *)
(***************************************************************************)
\* the most significant 8 bits of a texel
High8(texel) == texel.hi \div 256

\* the low 24 bits that occur among the texels read back
FieldsRead == {Low24(imageData.words[i]) : i \in 1..imagePixelCount}

\* the low 24 bits of each texel with the value it was decoded to, and with the
\* number written for it
FieldsDecoded == {<<Low24(imageData.words[i]), depthData[i]>> : i \in 1..imagePixelCount}

FieldsWritten ==
    {<<Low24(imageData.words[i + 1]),
       outputFile[(i \div IMAGE_WIDTH) + 1][(i % IMAGE_WIDTH) + 1]>> :
          i \in 0..(imagePixelCount - 1)}

\* C34: the decoded value of a texel is a function of its low 24 bits: any two
\* texels with the same low 24 bits, whatever their most significant 8 bits, are
\* decoded to the same value and written to the file as the same number
C34_HighByteIgnored ==
    /\ depthData # <<>> => Cardinality(FieldsDecoded) = Cardinality(FieldsRead)
    /\ outputFile # <<>> => Cardinality(FieldsWritten) = Cardinality(FieldsRead)

\* 0x007FFFFF and 0xFF7FFFFF, and 0x00FFFFFF and 0xFFFFFFFF, have been decoded
C34_Witness ==
    /\ pc = "free_depthData"
    /\ outputFile[1][3] = outputFile[1][4]
    /\ imageData.words[3] = Word(127, 65535)
    /\ imageData.words[4] = Word(65407, 65535)
    /\ depthData[3] = depthData[4]
    /\ depthData[3] = Float(8388607, DepthMax)
    /\ imageData.words[2] = Word(255, 65535)
    /\ imageData.words[5] = Word(65535, 65535)
    /\ depthData[2] = depthData[5]
    /\ High8(imageData.words[3]) # High8(imageData.words[4])

(***************************************************************************)
(* More devices than physicalDevices[] has room for.                       *)
(***************************************************************************)
\* what vkEnumeratePhysicalDevices returned, if it has been called
EnumerationReturned(result) == Returned("vkEnumeratePhysicalDevices", result) \in Range(returned)

\* C35: when vkEnumeratePhysicalDevices returns VK_INCOMPLETE the program goes on
\* with the first MAX_PHYSICAL_DEVICE_COUNT devices: selection runs over these only
\* and the run fails there only when none of them is suitable; any other result but
\* VK_SUCCESS ends the run with failure before selection
C35_IncompleteEnumerationContinues ==
    /\ EnumerationReturned(VK_INCOMPLETE) =>
          /\ Len(platform.devices) > MAX_PHYSICAL_DEVICE_COUNT
          /\ physicalDeviceCount = MAX_PHYSICAL_DEVICE_COUNT
          /\ physicalDevices = SubSeq(platform.devices, 1, MAX_PHYSICAL_DEVICE_COUNT)
          /\ pc = "EXIT_FAILURE" =>
                \/ NoSuitablePair /\ physicalDeviceIndex = MAX_PHYSICAL_DEVICE_COUNT
                \/ Failed("vkCreateDevice")
          /\ NoSuitablePair => pc \in {"SelectPhysicalDevice", "EXIT_FAILURE"}
          /\ pc \notin {"SelectPhysicalDevice", "EXIT_FAILURE"} =>
                /\ physicalDeviceIndex < MAX_PHYSICAL_DEVICE_COUNT
                /\ Suitable(physicalDeviceIndex, queueFamilyIndex)
    /\ \A error \in VkErrors :
          EnumerationReturned(error) =>
             /\ pc = "EXIT_FAILURE"
             /\ physicalDevices = <<>>
             /\ returned[Len(returned)].call = "vkEnumeratePhysicalDevices"
             /\ "device" \notin Range(created)

\* five devices, the last two of them GPUs: the fourth was selected
C35_Witness ==
    /\ EnumerationReturned(VK_INCOMPLETE)
    /\ platform.devices = <<Llvmpipe, Llvmpipe, Llvmpipe, IntegratedGpu, IntegratedGpu>>
    /\ physicalDeviceIndex = 3
    /\ "device" \in Range(created)
=============================================================================
